---- MODULE Spec2Model ----
(***************************************************************************)
(* Decision Pack Platform: run lifecycle, budget ledger, 2-phase finalize, *)
(* Reaper and Reconciler, idempotent admission.                            *)
(*                                                                         *)
(* Time is abstracted to the truth value of each comparison the code makes *)
(* against the wall clock: leaseExpired[r] is "lease_expires_at < now",    *)
(* stuck[r] is "finalize_claimed_at < now - 5min", aged[r] is              *)
(* "now - created_at >= RESERVATION_TTL_SECONDS".  Each becomes true at an *)
(* arbitrary moment, as the clock advances.                                *)
(*                                                                         *)
(* A run_id is a uuid4 drawn per POST request, so a run is named by the    *)
(* request that created it.  Lease and finalize tokens are uuid4 values    *)
(* drawn per attempt; an attempt is named by the actor that made it.       *)
(***************************************************************************)
EXTENDS Integers, FiniteSets, Sequences, TLC

\* ------------------------------------------------------------------ bounds
InitialBalance == 300000
MaxHeartbeats == 1
MaxLedgerCalls == 4
RateLimit == 1
\* Highest expected_version a caller hands to BudgetManager.
MaxExpectedVersion == 2

\* ------------------------------------------------------- program constants
MinimumMaxCost == 5000
FeeFloor == 5000
FeeCap == 100000
StubCost == 50000

\* ------------------------------------------------------------ finite sets
Requests == {"p1", "p2"}
CoreReq == "p1"
Tenants == {"t1", "t2"}
Keys == {"k1", "k2"}
Hashes == {"h1", "h2", "h3"}
\* A payload hash stands for one request body, reservation.max_cost included.
PayloadCost(h) == IF h = "h1" THEN 200000 ELSE IF h = "h2" THEN 500000 ELSE 30000
RateCallers == {"q1", "q2", "q3", "q4", "q5", "q6"}
Workers == {"w1", "w2"}
Null == "null"
NoCost == -1

VARIABLES runs, balance, reserve, receipt, queue, artifact,
          api, wk, rp, rc,
          leaseExpired, stuck, aged,
          settleIssued, settleOk, commits, claimWins, claimErr, claimTried, reserveOk,
          refundOk, ret,
          rateKey, rl, passes, got

vars == <<runs, balance, reserve, receipt, queue, artifact, api, wk, rp, rc,
          leaseExpired, stuck, aged,
          settleIssued, settleOk, commits, claimWins, claimErr, claimTried, reserveOk,
          refundOk, ret,
          rateKey, rl, passes, got>>

ledgerVars == <<balance, reserve, receipt>>
timeVars == <<leaseExpired, stuck, aged>>
rateVars == <<rateKey, rl, passes>>
edgeVars == <<rateVars, got>>
ghostVars == <<settleIssued, settleOk, commits, claimWins, claimErr, claimTried, reserveOk,
               refundOk, ret>>

Min(a, b) == IF a < b THEN a ELSE b
Max(a, b) == IF a > b THEN a ELSE b

\* ------------------------------------------------------------------ ledger
\* RESERVE_LUA without the EXISTS check on reserve:{run}.
ReserveLuaWithoutExistsCheck(bal, res, t, r, amount) ==
    IF bal[t] < amount
    THEN [status |-> "ERR_INSUFFICIENT", bal |-> bal, res |-> res]
    ELSE [status |-> "OK",
          bal |-> [bal EXCEPT ![t] = bal[t] - amount],
          res |-> [x \in DOMAIN res \cup {r} |->
                      IF x = r THEN [tenant |-> t, reserved |-> amount] ELSE res[x]]]

\* RESERVE_LUA: refuse an existing reservation, refuse an insufficient
\* balance, else move the amount from the balance into reserve:{run}.
ReserveLua(bal, res, t, r, amount) ==
    IF r \in DOMAIN res
    THEN [status |-> "ERR_ALREADY_RESERVED", bal |-> bal, res |-> res]
    ELSE IF bal[t] < amount
    THEN [status |-> "ERR_INSUFFICIENT", bal |-> bal, res |-> res]
    ELSE [status |-> "OK",
          bal |-> [bal EXCEPT ![t] = bal[t] - amount],
          res |-> res @@ (r :> [tenant |-> t, reserved |-> amount])]

\* SETTLE_LUA without its two "CRITICAL" clamps.
SettleChargeUnclamped(requested, reserved) == requested

\* The charge SETTLE_LUA takes: the requested charge clamped to [0, reserved].
SettleCharge(requested, reserved) ==
    LET c0 == IF requested < 0 THEN 0 ELSE requested
    IN  IF c0 > reserved THEN reserved ELSE c0

\* The record of a settlement: written with the consumption of the
\* reservation, {tenant, charged}.
WriteReceipt(rcp, t, r, charge) ==
    IF r \in DOMAIN rcp THEN [rcp EXCEPT ![r] = [tenant |-> t, charged |-> charge]]
    ELSE rcp @@ (r :> [tenant |-> t, charged |-> charge])

RemoveKey(f, k) == [x \in (DOMAIN f) \ {k} |-> f[x]]

\* SETTLE_LUA without the DEL of reserve:{run}.
SettleLuaKeepingReserve(bal, res, rcp, t, r, requested) ==
    IF r \notin DOMAIN res
    THEN [status |-> "ERR_NO_RESERVE", charge |-> 0, refund |-> 0,
          bal |-> bal, res |-> res, rcp |-> rcp]
    ELSE LET reserved == res[r].reserved
             charge == SettleCharge(requested, reserved)
             refund == reserved - charge
         IN  [status |-> "OK", charge |-> charge, refund |-> refund,
              bal |-> [bal EXCEPT ![t] = bal[t] + refund],
              res |-> res,
              rcp |-> WriteReceipt(rcp, t, r, charge)]

\* SETTLE_LUA: missing reservation -> ERR_NO_RESERVE; else clamp the charge,
\* credit the refund to budget:{tenant}, delete reserve:{run}.
SettleLua(bal, res, rcp, t, r, requested) ==
    IF r \notin DOMAIN res
    THEN [status |-> "ERR_NO_RESERVE", charge |-> 0, refund |-> 0,
          bal |-> bal, res |-> res, rcp |-> rcp]
    ELSE LET reserved == res[r].reserved
             charge == SettleCharge(requested, reserved)
             refund == reserved - charge
             nb0 == bal[t] + refund
             nb == IF nb0 < 0 THEN 0 ELSE nb0
         IN  [status |-> "OK", charge |-> charge, refund |-> refund,
              bal |-> [bal EXCEPT ![t] = nb],
              res |-> RemoveKey(res, r),
              rcp |-> WriteReceipt(rcp, t, r, charge)]

\* REFUND_FULL_LUA that deletes the reservation without crediting the balance.
RefundFullLuaWithoutCredit(bal, res, t, r) ==
    IF r \notin DOMAIN res
    THEN [status |-> "ERR_NO_RESERVE", bal |-> bal, res |-> res]
    ELSE [status |-> "OK", bal |-> bal, res |-> RemoveKey(res, r)]

\* REFUND_FULL_LUA: missing reservation -> ERR_NO_RESERVE; else return the
\* whole reserved amount to budget:{tenant} and delete reserve:{run}.
RefundFullLua(bal, res, t, r) ==
    IF r \notin DOMAIN res
    THEN [status |-> "ERR_NO_RESERVE", bal |-> bal, res |-> res]
    ELSE [status |-> "OK",
          bal |-> [bal EXCEPT ![t] = bal[t] + res[r].reserved],
          res |-> RemoveKey(res, r)]

\* ---------------------------------------------------------------- RunStore
\* The WHERE clause without version = expected_version.
VersionCheckWithoutVersion(rs, r, t, expected, conds) ==
    /\ r \in DOMAIN rs
    /\ rs[r].tenant = t
    /\ \A f \in DOMAIN conds : rs[r][f] = conds[f]

\* RunRepository.update_with_version_check: the WHERE clause.
VersionCheckMatches(rs, r, t, expected, conds) ==
    /\ r \in DOMAIN rs
    /\ rs[r].tenant = t
    /\ rs[r].version = expected
    /\ \A f \in DOMAIN conds : rs[r][f] = conds[f]

\* RunRepository.update_with_version_check: the SET clause, version bumped.
ApplyUpdates(run, expected, updates) ==
    [f \in DOMAIN run |->
        IF f = "version" THEN expected + 1
        ELSE IF f \in DOMAIN updates THEN updates[f]
        ELSE run[f]]

\* The update without its WHERE clause (run_id apart).
UpdateWithoutWhere(rs, r, t, expected, updates, conds) ==
    IF r \in DOMAIN rs
    THEN [ok |-> TRUE, rs |-> [rs EXCEPT ![r] = ApplyUpdates(rs[r], expected, updates)]]
    ELSE [ok |-> FALSE, rs |-> rs]

UpdateWithVersionCheck(rs, r, t, expected, updates, conds) ==
    IF VersionCheckMatches(rs, r, t, expected, conds)
    THEN [ok |-> TRUE, rs |-> [rs EXCEPT ![r] = ApplyUpdates(rs[r], expected, updates)]]
    ELSE [ok |-> FALSE, rs |-> rs]

NoConds == [x \in {} |-> Null]

\* RunRepository.get_by_idempotency_key
RunsByIdempotencyKey(rs, t, k) ==
    {r \in DOMAIN rs : rs[r].tenant = t /\ rs[r].idempotency_key = k}

\* create_run: minimum_fee = min(max(5_000, int(max_cost * 0.02)), max_cost, 100_000)
MinimumFee(max_cost) ==
    Min(Min(Max(FeeFloor, (max_cost * 2) \div 100), max_cost), FeeCap)

NewRun(t, k, h, max_cost) ==
    [tenant |-> t, idempotency_key |-> k, payload_hash |-> h,
     status |-> "QUEUED", money_state |-> "NONE", version |-> 0,
     reservation_max_cost |-> max_cost, minimum_fee |-> MinimumFee(max_cost),
     actual_cost |-> NoCost,
     lease_token |-> Null, finalize_stage |-> Null, finalize_token |-> Null,
     result_key |-> Null, reason |-> Null]

WkIdle == [pc |-> "idle", run |-> Null, ver |-> 0, mode |-> "success", cost |-> 0,
           hb |-> "off", hbver |-> 0, hbn |-> 0]

RpIdle == [pc |-> "idle", run |-> Null, ver |-> 0, charge |-> 0]

RcIdle == [pc |-> "idle", run |-> Null, row |-> [x \in {} |-> Null], path |-> Null,
           charge |-> 0, final |-> Null]

\* ------------------------------------------------------------------- Init
ApiIdle == [pc |-> "none", tenant |-> Null, key |-> Null, hash |-> Null,
            cost |-> 0, code |-> 0, run_id |-> Null]

\* rate_limit:post_runs:{tenant} does not exist.
NoKey == [exists |-> FALSE, value |-> 0, ttl |-> FALSE]

\* The body of a reply that carries no run.
NoBody == [status |-> Null, money_state |-> Null, reserved |-> 0, used |-> 0,
           minimum_fee |-> 0, budget_remaining |-> 0, result |-> FALSE, error |-> Null]

\* No GET /v1/runs/{run_id} has been answered yet.
NoGet == [tenant |-> Null, run |-> Null, code |-> 0, detail |-> Null, body |-> NoBody]

\* No ledger script has been called directly yet.
NoReply == [op |-> Null, tenant |-> Null, run |-> Null, arg |-> 0,
            status |-> Null, charge |-> 0, refund |-> 0]

Init ==
    /\ runs = [x \in {} |-> Null]
    /\ balance = [t \in Tenants |-> InitialBalance]
    /\ reserve = [x \in {} |-> Null]
    /\ receipt = [x \in {} |-> Null]
    /\ queue = {}
    /\ artifact = [x \in {} |-> Null]
    /\ api = [p \in Requests |-> ApiIdle]
    /\ wk = [w \in Workers |-> WkIdle]
    /\ rp = RpIdle
    /\ rc = RcIdle
    /\ leaseExpired = [p \in Requests |-> FALSE]
    /\ stuck = [p \in Requests |-> FALSE]
    /\ aged = [p \in Requests |-> FALSE]
    /\ settleIssued = [p \in Requests |-> {}]
    /\ settleOk = [p \in Requests |-> 0]
    /\ commits = [p \in Requests |-> 0]
    /\ claimWins = [p \in Requests |-> {}]
    /\ claimErr = {}
    /\ claimTried = {}
    /\ reserveOk = [p \in Requests |-> 0]
    /\ refundOk = [p \in Requests |-> 0]
    /\ ret = NoReply
    /\ rateKey = NoKey
    /\ rl = [q \in RateCallers |-> [pc |-> "idle", n |-> 0]]
    /\ passes = 0
    /\ got = NoGet

\* -------------------------------------------------------------- admission
\* POST /v1/runs arrives: the request's tenant, Idempotency-Key, payload
\* hash and reservation.max_cost.
PostStart(p, t, k, h, c) ==
    /\ api[p].pc = "none"
    /\ api' = [api EXCEPT ![p] = [pc |-> "lookup", tenant |-> t, key |-> k,
                                  hash |-> h, cost |-> c, code |-> 0, run_id |-> Null]]
    /\ UNCHANGED edgeVars
    /\ UNCHANGED <<runs, ledgerVars, queue, artifact, wk, rp, rc, timeVars, ghostVars>>

\* The replay that does not compare payload hashes.
ReplayWithoutHashCheck(a, existing) ==
    [a EXCEPT !.pc = "done", !.code = 202, !.run_id = existing]

\* The answer for a request whose (tenant, key) already names a run:
\* replay on equal hash, 409 otherwise.
ReplayOrConflict(a, existing) ==
    IF runs[existing].payload_hash = a.hash
    THEN [a EXCEPT !.pc = "done", !.code = 202, !.run_id = existing]
    ELSE [a EXCEPT !.pc = "done", !.code = 409]

\* create_run: get_by_idempotency_key before anything is created.
PostLookup(p) ==
    /\ api[p].pc = "lookup"
    /\ LET found == RunsByIdempotencyKey(runs, api[p].tenant, api[p].key)
       IN  IF found # {}
           THEN api' = [api EXCEPT ![p] = ReplayOrConflict(api[p], CHOOSE r \in found : TRUE)]
           ELSE api' = [api EXCEPT ![p].pc = "create"]
    /\ UNCHANGED edgeVars
    /\ UNCHANGED <<runs, ledgerVars, queue, artifact, wk, rp, rc, timeVars, ghostVars>>

\* The runs table without the unique constraint.
NoUniqueConstraint(rs, t, k) == FALSE

\* The uq_runs_tenant_idempotency constraint: an insert is refused when a
\* row with the same (tenant_id, idempotency_key) exists.
UniqueViolation(rs, t, k) == RunsByIdempotencyKey(rs, t, k) # {}

\* create_run: plan enforcement (max_cost below MINIMUM_MAX_COST_USD_MICROS
\* is a 400), then repo.create and the IntegrityError branch.
PostCreate(p) ==
    /\ api[p].pc = "create"
    /\ IF api[p].cost < MinimumMaxCost
       THEN /\ api' = [api EXCEPT ![p].pc = "done", ![p].code = 400]
            /\ runs' = runs
       ELSE IF UniqueViolation(runs, api[p].tenant, api[p].key)
       THEN /\ api' = [api EXCEPT ![p] = ReplayOrConflict(api[p],
                          CHOOSE r \in RunsByIdempotencyKey(runs, api[p].tenant, api[p].key) : TRUE)]
            /\ runs' = runs
       ELSE /\ runs' = runs @@ (p :> NewRun(api[p].tenant, api[p].key, api[p].hash, api[p].cost))
            /\ api' = [api EXCEPT ![p].pc = "reserve", ![p].run_id = p]
    /\ UNCHANGED edgeVars
    /\ UNCHANGED <<ledgerVars, queue, artifact, wk, rp, rc, timeVars, ghostVars>>

\* BudgetManager.reserve: the Reserve.lua call.
PostReserve(p) ==
    /\ api[p].pc = "reserve"
    /\ LET res == ReserveLua(balance, reserve, api[p].tenant, p, api[p].cost)
       IN  /\ balance' = res.bal
           /\ reserve' = res.res
           /\ reserveOk' = [reserveOk EXCEPT ![p] = @ + (IF res.status = "OK" THEN 1 ELSE 0)]
           /\ api' = [api EXCEPT ![p].pc = IF res.status = "OK" THEN "mark" ELSE "reserve_failed",
                                 ![p].code = IF res.status = "ERR_INSUFFICIENT" THEN 402 ELSE 500]
    /\ UNCHANGED edgeVars
    /\ UNCHANGED <<runs, receipt, queue, artifact, wk, rp, rc, timeVars,
                   settleIssued, settleOk, commits, claimWins, claimErr, claimTried,
                   refundOk, ret>>

\* The failure update without the status and money_state.
FailedUnmarked(code) == [reason |-> code]

FailedRefunded(code) ==
    [status |-> "FAILED", money_state |-> "REFUNDED", reason |-> code]

\* create_run, except-branch of the reserve: mark the run FAILED/REFUNDED
\* (expected_version = 0) and answer 402 or 500.
PostReserveFailed(p) ==
    /\ api[p].pc = "reserve_failed"
    /\ runs' = UpdateWithVersionCheck(runs, p, api[p].tenant, 0,
                   FailedRefunded("BUDGET_RESERVE_FAILED"), NoConds).rs
    /\ api' = [api EXCEPT ![p].pc = "done"]
    /\ UNCHANGED edgeVars
    /\ UNCHANGED <<ledgerVars, queue, artifact, wk, rp, rc, timeVars, ghostVars>>

\* BudgetManager.reserve: mark the run RESERVED under version 0; on a lost
\* version check refund_full and fail the admission.
PostMarkReserved(p) ==
    /\ api[p].pc = "mark"
    /\ LET upd == UpdateWithVersionCheck(runs, p, api[p].tenant, 0,
                      [money_state |-> "RESERVED", reservation_max_cost |-> api[p].cost], NoConds)
           back == RefundFullLua(balance, reserve, api[p].tenant, p)
       IN  IF upd.ok
           THEN /\ runs' = upd.rs
                /\ api' = [api EXCEPT ![p].pc = "enqueue"]
                /\ UNCHANGED <<balance, reserve, refundOk>>
           ELSE /\ runs' = runs
                /\ balance' = back.bal
                /\ reserve' = back.res
                /\ refundOk' = [refundOk EXCEPT ![p] = @ + (IF back.status = "OK" THEN 1 ELSE 0)]
                /\ api' = [api EXCEPT ![p].pc = "reserve_failed", ![p].code = 500]
    /\ UNCHANGED edgeVars
    /\ UNCHANGED <<receipt, queue, artifact, wk, rp, rc, timeVars,
                   settleIssued, settleOk, commits, claimWins, claimErr, claimTried,
                   reserveOk, ret>>

\* create_run: sqs_client.enqueue_run succeeds; 202 with the receipt.
PostEnqueue(p) ==
    /\ api[p].pc = "enqueue"
    /\ queue' = queue \cup {p}
    /\ api' = [api EXCEPT ![p].pc = "done", ![p].code = 202]
    /\ UNCHANGED edgeVars
    /\ UNCHANGED <<runs, ledgerVars, artifact, wk, rp, rc, timeVars, ghostVars>>

\* create_run: enqueue raises; refund_full is called first.
PostEnqueueFails(p) ==
    /\ api[p].pc = "enqueue"
    /\ LET back == RefundFullLua(balance, reserve, api[p].tenant, p)
       IN  /\ balance' = back.bal
           /\ reserve' = back.res
           /\ refundOk' = [refundOk EXCEPT ![p] = @ + (IF back.status = "OK" THEN 1 ELSE 0)]
    /\ api' = [api EXCEPT ![p].pc = "enqueue_failed"]
    /\ UNCHANGED edgeVars
    /\ UNCHANGED <<runs, receipt, queue, artifact, wk, rp, rc, timeVars,
                   settleIssued, settleOk, commits, claimWins, claimErr, claimTried,
                   reserveOk, ret>>

\* create_run: after the refund, flip the run to FAILED/REFUNDED
\* (expected_version = 1) and answer 500.
PostEnqueueFailed(p) ==
    /\ api[p].pc = "enqueue_failed"
    /\ runs' = UpdateWithVersionCheck(runs, p, api[p].tenant, 1,
                   FailedRefunded("QUEUE_ENQUEUE_FAILED"), NoConds).rs
    /\ api' = [api EXCEPT ![p].pc = "done", ![p].code = 500]
    /\ UNCHANGED edgeVars
    /\ UNCHANGED <<ledgerVars, queue, artifact, wk, rp, rc, timeVars, ghostVars>>

\* The API process dies in the middle of an admission.
PostCrash(p) ==
    /\ api[p].pc \in {"lookup", "create", "reserve", "reserve_failed", "mark",
                      "enqueue", "enqueue_failed"}
    /\ api' = [api EXCEPT ![p].pc = "crashed"]
    /\ UNCHANGED edgeVars
    /\ UNCHANGED <<runs, ledgerVars, queue, artifact, wk, rp, rc, timeVars, ghostVars>>

NextAdmit ==
    \/ \E p \in Requests, t \in Tenants, k \in Keys, h \in Hashes :
          PostStart(p, t, k, h, PayloadCost(h))
    \/ \E p \in Requests : PostLookup(p)
    \/ \E p \in Requests : PostCreate(p)
    \/ \E p \in Requests : PostReserve(p)
    \/ \E p \in Requests : PostReserveFailed(p)
    \/ \E p \in Requests : PostMarkReserved(p)
    \/ \E p \in Requests : PostEnqueue(p)
    \/ \E p \in Requests : PostEnqueueFails(p)
    \/ \E p \in Requests : PostEnqueueFailed(p)
    \/ \E p \in Requests : PostCrash(p)

SpecAdmit == Init /\ [][NextAdmit]_vars

\* ------------------------------------------------------------------ worker
TerminalStates == {"COMPLETED", "FAILED", "TIMED_OUT", "CANCELLED"}

\* WorkerLoop.run_once: one message is received; it stays in the queue
\* (invisible for a while) until it is deleted.
WkReceive(w, r) ==
    /\ wk[w].pc = "idle"
    /\ wk[w].hb = "off"
    /\ r \in queue
    /\ wk' = [wk EXCEPT ![w] = [WkIdle EXCEPT !.pc = "load", !.run = r]]
    /\ UNCHANGED edgeVars
    /\ UNCHANGED <<runs, ledgerVars, queue, artifact, api, rp, rc, timeVars, ghostVars>>

\* WorkerLoop._process_message, step 1: load the run; a terminal run is a
\* duplicate (delete), a PROCESSING run is left alone (no delete).
WkLoad(w) ==
    /\ wk[w].pc = "load"
    /\ LET r == wk[w].run
       IN  IF r \notin DOMAIN runs
           THEN /\ queue' = queue \ {r}
                /\ wk' = [wk EXCEPT ![w] = WkIdle]
           ELSE IF runs[r].status = "QUEUED"
           THEN /\ wk' = [wk EXCEPT ![w].pc = "to_processing", ![w].ver = runs[r].version]
                /\ queue' = queue
           ELSE IF runs[r].status = "PROCESSING"
           THEN /\ wk' = [wk EXCEPT ![w] = WkIdle]
                /\ queue' = queue
           ELSE /\ wk' = [wk EXCEPT ![w] = WkIdle]
                /\ queue' = queue \ {r}
    /\ UNCHANGED edgeVars
    /\ UNCHANGED <<runs, ledgerVars, artifact, api, rp, rc, timeVars, ghostVars>>

\* WorkerLoop._process_message, step 2: QUEUED -> PROCESSING under the version
\* read, taking the lease; the heartbeat thread starts on success.
WkToProcessing(w) ==
    /\ wk[w].pc = "to_processing"
    /\ LET r == wk[w].run
           upd == UpdateWithVersionCheck(runs, r, runs[r].tenant, wk[w].ver,
                      [status |-> "PROCESSING", lease_token |-> w],
                      [status |-> "QUEUED"])
       IN  IF upd.ok
           THEN /\ runs' = upd.rs
                /\ leaseExpired' = [leaseExpired EXCEPT ![r] = FALSE]
                /\ wk' = [wk EXCEPT ![w].pc = "exec", ![w].hb = "idle",
                                    ![w].hbver = wk[w].ver + 1]
                /\ queue' = queue
           ELSE /\ runs' = runs
                /\ leaseExpired' = leaseExpired
                /\ wk' = [wk EXCEPT ![w] = WkIdle]
                /\ queue' = queue \ {r}
    /\ UNCHANGED edgeVars
    /\ UNCHANGED <<ledgerVars, artifact, api, rp, rc, stuck, aged, ghostVars>>

\* HeartbeatThread.stop: the stop event is set and the thread is joined for
\* at most 2 s; a tick that is already sending is not waited for.
HbStopped(h) == IF h = "sending" THEN "draining"
                ELSE IF h = "draining" THEN "draining" ELSE "off"

\* StubDecisionExecutor.execute: actual cost = min(stub cost, max_cost).
StubActualCost(max_cost) == Min(StubCost, max_cost)

\* StubDecisionExecutor.execute returns; heartbeat.stop() follows.
WkExecuteOk(w) ==
    /\ wk[w].pc = "exec"
    /\ wk' = [wk EXCEPT ![w].pc = "claim_read", ![w].mode = "success",
                        ![w].cost = StubActualCost(runs[wk[w].run].reservation_max_cost),
                        ![w].hb = HbStopped(wk[w].hb)]
    /\ UNCHANGED edgeVars
    /\ UNCHANGED <<runs, ledgerVars, queue, artifact, api, rp, rc, timeVars, ghostVars>>

\* The failure path of _process_message (outer except): heartbeat.stop(),
\* then finalize_failure with the run's minimum_fee.
ToFailurePath(x) ==
    [x EXCEPT !.pc = "claim_read", !.mode = "failure", !.hb = HbStopped(x.hb)]

\* The executor raises.
WkExecuteFails(w) ==
    /\ wk[w].pc = "exec"
    /\ wk' = [wk EXCEPT ![w] = ToFailurePath(wk[w])]
    /\ UNCHANGED edgeVars
    /\ UNCHANGED <<runs, ledgerVars, queue, artifact, api, rp, rc, timeVars, ghostVars>>

\* _process_message returns: the worker is free again; a heartbeat tick that
\* stop() did not wait for is still in flight.
Retire(x) ==
    IF x.hb = "draining"
    THEN [WkIdle EXCEPT !.hb = "draining", !.run = x.run, !.hbver = x.hbver]
    ELSE WkIdle

\* What a worker does on ClaimError: reload the run and delete the message
\* only if the run is COMMITTED or terminal.
DeleteAfterClaimError(rs, r, q) ==
    IF r \in DOMAIN rs /\ (rs[r].finalize_stage = "COMMITTED" \/ rs[r].status \in TerminalStates)
    THEN q \ {r} ELSE q

\* An error after the claim: on the success path the outer except runs the
\* failure path; on the failure path the error leaves _process_message and
\* the message is kept.
AfterFinalizeError(x) ==
    IF x.mode = "success" THEN ToFailurePath(x) ELSE Retire([x EXCEPT !.hb = HbStopped(x.hb)])

\* The charge a worker asks for: the executor's cost on success, the run's
\* minimum_fee on failure.
WkCharge(w) ==
    IF wk[w].mode = "success" THEN wk[w].cost ELSE runs[wk[w].run].minimum_fee

\* _do_2phase_finalize without "charge must not exceed reservation".
ClaimPrecheckWithoutChargeLimit(rs, r, charge) ==
    IF r \notin DOMAIN rs THEN "FinalizeError"
    ELSE IF rs[r].status # "PROCESSING" THEN "ClaimError"
    ELSE IF rs[r].money_state # "RESERVED" THEN "FinalizeError"
    ELSE "claim"

\* _do_2phase_finalize / claim_finalize: read the run and pre-check it.
\* "claim" | "ClaimError" | "FinalizeError"
ClaimPrecheck(rs, r, charge) ==
    IF r \notin DOMAIN rs THEN "FinalizeError"
    ELSE IF rs[r].status # "PROCESSING" THEN "ClaimError"
    ELSE IF rs[r].money_state # "RESERVED" THEN "FinalizeError"
    ELSE IF charge > rs[r].reservation_max_cost THEN "FinalizeError"
    ELSE "claim"

WkClaimRead(w) ==
    /\ wk[w].pc = "claim_read"
    /\ LET r == wk[w].run
           pre == ClaimPrecheck(runs, r, WkCharge(w))
       IN  IF pre = "claim"
           THEN /\ wk' = [wk EXCEPT ![w].pc = "claim_cas", ![w].ver = runs[r].version]
                /\ UNCHANGED <<queue, claimErr, claimTried>>
           ELSE IF pre = "ClaimError"
           THEN /\ wk' = [wk EXCEPT ![w] = Retire(wk[w])]
                /\ queue' = DeleteAfterClaimError(runs, r, queue)
                /\ claimErr' = claimErr \cup {w}
                /\ claimTried' = claimTried \cup {w}
           ELSE /\ wk' = [wk EXCEPT ![w] = Retire(wk[w])]
                /\ claimTried' = claimTried \cup {w}
                /\ UNCHANGED <<queue, claimErr>>
    /\ UNCHANGED edgeVars
    /\ UNCHANGED <<runs, ledgerVars, artifact, api, rp, rc, timeVars,
                   settleIssued, settleOk, commits, claimWins, reserveOk, refundOk, ret>>

\* The claim CAS without finalize_stage IS NULL.
ClaimConditionsWithoutStage(extra) ==
    [status |-> "PROCESSING"] @@ extra

\* Phase A, the claim CAS: WHERE version, status = PROCESSING,
\* finalize_stage IS NULL and the caller's identity predicate.
ClaimConditions(extra) ==
    [status |-> "PROCESSING", finalize_stage |-> Null] @@ extra

ClaimUpdate(rs, r, expected, token, extra) ==
    UpdateWithVersionCheck(rs, r, rs[r].tenant, expected,
        [finalize_stage |-> "CLAIMED", finalize_token |-> token],
        ClaimConditions(extra))

\* The claim whose failure is not looked at.
AfterClaimUnchecked(x, ok) ==
    [x EXCEPT !.pc = IF x.mode = "success" THEN "upload" ELSE "settle", !.ver = x.ver + 1]

\* "if not success: raise ClaimError": the claimant goes on only as the
\* winner, holding the claimed version.
AfterClaim(x, ok) ==
    IF ok
    THEN [x EXCEPT !.pc = IF x.mode = "success" THEN "upload" ELSE "settle", !.ver = x.ver + 1]
    ELSE Retire(x)

WkClaimCas(w) ==
    /\ wk[w].pc = "claim_cas"
    /\ claimTried' = claimTried \cup {w}
    /\ LET r == wk[w].run
           upd == ClaimUpdate(runs, r, wk[w].ver, w, [lease_token |-> w])
       IN  IF upd.ok
           THEN /\ runs' = upd.rs
                /\ stuck' = [stuck EXCEPT ![r] = FALSE]
                /\ claimWins' = [claimWins EXCEPT ![r] = @ \cup {w}]
                /\ wk' = [wk EXCEPT ![w] = AfterClaim(wk[w], TRUE)]
                /\ UNCHANGED <<queue, claimErr>>
           ELSE /\ wk' = [wk EXCEPT ![w] = AfterClaim(wk[w], FALSE)]
                /\ queue' = DeleteAfterClaimError(runs, r, queue)
                /\ claimErr' = claimErr \cup {w}
                /\ UNCHANGED <<runs, stuck, claimWins>>
    /\ UNCHANGED edgeVars
    /\ UNCHANGED <<ledgerVars, artifact, api, rp, rc, leaseExpired, aged,
                   settleIssued, settleOk, commits, reserveOk, refundOk, ret>>

\* s3.put_object with Metadata actual-cost-usd-micros, after the claim.
WkUploadOk(w) ==
    /\ wk[w].pc = "upload"
    /\ artifact' = IF wk[w].run \in DOMAIN artifact
                   THEN [artifact EXCEPT ![wk[w].run] = wk[w].cost]
                   ELSE artifact @@ (wk[w].run :> wk[w].cost)
    /\ wk' = [wk EXCEPT ![w].pc = "settle"]
    /\ UNCHANGED edgeVars
    /\ UNCHANGED <<runs, ledgerVars, queue, api, rp, rc, timeVars, ghostVars>>

\* s3.put_object raises: FinalizeError("S3 upload failed after claim").
WkUploadFails(w) ==
    /\ wk[w].pc = "upload"
    /\ wk' = [wk EXCEPT ![w] = AfterFinalizeError(wk[w])]
    /\ UNCHANGED edgeVars
    /\ UNCHANGED <<runs, ledgerVars, queue, artifact, api, rp, rc, timeVars, ghostVars>>

\* Phase B step 1: budget_manager.scripts.settle(tenant, run, charge).
WkSettle(w) ==
    /\ wk[w].pc = "settle"
    /\ LET r == wk[w].run
           res == SettleLua(balance, reserve, receipt, runs[r].tenant, r, WkCharge(w))
       IN  /\ balance' = res.bal
           /\ reserve' = res.res
           /\ receipt' = res.rcp
           /\ settleIssued' = [settleIssued EXCEPT ![r] = @ \cup {res.status}]
           /\ settleOk' = [settleOk EXCEPT ![r] = @ + (IF res.status = "OK" THEN 1 ELSE 0)]
           /\ wk' = [wk EXCEPT ![w] = IF res.status = "OK" THEN [wk[w] EXCEPT !.pc = "commit"]
                                      ELSE AfterFinalizeError(wk[w])]
    /\ UNCHANGED edgeVars
    /\ UNCHANGED <<runs, queue, artifact, api, rp, rc, timeVars,
                   commits, claimWins, claimErr, claimTried, reserveOk, refundOk, ret>>

\* The final commit that forgets finalize_stage = COMMITTED.
FinalUpdatesWithoutStage(final_status, charge, extra) ==
    [status |-> final_status, money_state |-> "SETTLED", actual_cost |-> charge] @@ extra

\* Phase B step 2, the final commit: WHERE version = claimed version,
\* finalize_token = own token, finalize_stage = CLAIMED.
FinalUpdates(final_status, charge, extra) ==
    [status |-> final_status, money_state |-> "SETTLED", actual_cost |-> charge,
     finalize_stage |-> "COMMITTED"] @@ extra

\* The final commit's conditions without finalize_stage = CLAIMED.
CommitConditionsTokenOnly(token) ==
    [finalize_token |-> token]

\* The final commit's extra_conditions: own finalize_token, finalize_stage =
\* CLAIMED.
CommitConditions(token) ==
    [finalize_token |-> token, finalize_stage |-> "CLAIMED"]

\* The final commit that records the charge in the wrong unit.
CommitUpdateInWrongUnit(rs, r, claimed_version, token, final_status, charge, extra) ==
    UpdateWithVersionCheck(rs, r, rs[r].tenant, claimed_version,
        FinalUpdates(final_status, charge * 1000, extra),
        CommitConditions(token))

CommitUpdate(rs, r, claimed_version, token, final_status, charge, extra) ==
    UpdateWithVersionCheck(rs, r, rs[r].tenant, claimed_version,
        FinalUpdates(final_status, charge, extra),
        CommitConditions(token))

WkCommit(w) ==
    /\ wk[w].pc = "commit"
    /\ LET r == wk[w].run
           upd == IF wk[w].mode = "success"
                  THEN CommitUpdate(runs, r, wk[w].ver, w, "COMPLETED", WkCharge(w),
                                    [result_key |-> "key"])
                  ELSE CommitUpdate(runs, r, wk[w].ver, w, "FAILED", WkCharge(w),
                                    [reason |-> "PACK_EXECUTION_FAILED"])
       IN  IF upd.ok
           THEN /\ runs' = upd.rs
                /\ commits' = [commits EXCEPT ![r] = @ + 1]
                /\ queue' = queue \ {r}
                /\ wk' = [wk EXCEPT ![w] = Retire(wk[w])]
           ELSE /\ wk' = [wk EXCEPT ![w] = AfterFinalizeError(wk[w])]
                /\ UNCHANGED <<runs, commits, queue>>
    /\ UNCHANGED edgeVars
    /\ UNCHANGED <<ledgerVars, artifact, api, rp, rc, timeVars,
                   settleIssued, settleOk, claimWins, claimErr, claimTried, reserveOk, refundOk, ret>>

\* The worker process dies (its heartbeat thread with it); the message
\* becomes visible again.
WkCrash(w) ==
    /\ wk[w].pc # "idle"
    /\ wk' = [wk EXCEPT ![w] = WkIdle]
    /\ UNCHANGED edgeVars
    /\ UNCHANGED <<runs, ledgerVars, queue, artifact, api, rp, rc, timeVars, ghostVars>>

\* HeartbeatThread.run: the interval elapsed and the stop event is not set.
HbBegin(w) ==
    /\ wk[w].hb = "idle"
    /\ wk[w].hbn < MaxHeartbeats
    /\ wk' = [wk EXCEPT ![w].hb = "sending", ![w].hbn = @ + 1]
    /\ UNCHANGED edgeVars
    /\ UNCHANGED <<runs, ledgerVars, queue, artifact, api, rp, rc, timeVars, ghostVars>>

\* HeartbeatThread._send_heartbeat: extend lease_expires_at under the
\* thread's version, WHERE lease_token = own token AND status = PROCESSING.
HeartbeatUpdate(rs, r, expected, token) ==
    UpdateWithVersionCheck(rs, r, rs[r].tenant, expected,
        [lease_token |-> token],
        [lease_token |-> token, status |-> "PROCESSING"])

HbSend(w) ==
    /\ wk[w].hb \in {"sending", "draining"}
    /\ LET r == wk[w].run
           upd == HeartbeatUpdate(runs, r, wk[w].hbver, w)
       IN  /\ runs' = upd.rs
           /\ leaseExpired' = IF upd.ok THEN [leaseExpired EXCEPT ![r] = FALSE] ELSE leaseExpired
           /\ wk' = [wk EXCEPT ![w] =
                    IF wk[w].hb = "sending"
                    THEN [wk[w] EXCEPT !.hb = "idle", !.hbver = IF upd.ok THEN @ + 1 ELSE @]
                    ELSE IF wk[w].pc = "idle" THEN WkIdle
                    ELSE [wk[w] EXCEPT !.hb = "off"]]
    /\ UNCHANGED edgeVars
    /\ UNCHANGED <<ledgerVars, queue, artifact, api, rp, rc, stuck, aged, ghostVars>>

NextWorker ==
    \/ \E w \in Workers, r \in Requests : WkReceive(w, r)
    \/ \E w \in Workers : WkLoad(w)
    \/ \E w \in Workers : WkToProcessing(w)
    \/ \E w \in Workers : WkExecuteOk(w)
    \/ \E w \in Workers : WkExecuteFails(w)
    \/ \E w \in Workers : WkClaimRead(w)
    \/ \E w \in Workers : WkClaimCas(w)
    \/ \E w \in Workers : WkUploadOk(w)
    \/ \E w \in Workers : WkUploadFails(w)
    \/ \E w \in Workers : WkSettle(w)
    \/ \E w \in Workers : WkCommit(w)
    \/ \E w \in Workers : WkCrash(w)
    \/ \E w \in Workers : HbBegin(w)
    \/ \E w \in Workers : HbSend(w)

\* ------------------------------------------------------------------ reaper
Reaper == "reaper"

\* reap_run that charges the whole reservation.
ReapChargeFullReservation(run) == run.reservation_max_cost

\* reap_run: charge = min(minimum_fee or 0, reservation_max_cost or 0).
ReapCharge(run) == Min(run.minimum_fee, run.reservation_max_cost)

\* scan_expired_runs: status = PROCESSING AND lease_expires_at < now;
\* reap_run computes the charge from the scanned row.
RpScan(r) ==
    /\ rp.pc = "idle"
    /\ r \in DOMAIN runs
    /\ runs[r].status = "PROCESSING"
    /\ leaseExpired[r]
    /\ rp' = [pc |-> "claim_read", run |-> r, ver |-> 0,
              charge |-> ReapCharge(runs[r])]
    /\ UNCHANGED edgeVars
    /\ UNCHANGED <<runs, ledgerVars, queue, artifact, api, wk, rc, timeVars, ghostVars>>

\* finalize_timeout -> _do_2phase_finalize: read and pre-check.
RpClaimRead ==
    /\ rp.pc = "claim_read"
    /\ LET pre == ClaimPrecheck(runs, rp.run, rp.charge)
       IN  IF pre = "claim"
           THEN /\ rp' = [rp EXCEPT !.pc = "claim_cas", !.ver = runs[rp.run].version]
                /\ UNCHANGED <<claimErr, claimTried>>
           ELSE /\ rp' = RpIdle
                /\ claimErr' = IF pre = "ClaimError" THEN claimErr \cup {Reaper} ELSE claimErr
                /\ claimTried' = claimTried \cup {Reaper}
    /\ UNCHANGED edgeVars
    /\ UNCHANGED <<runs, ledgerVars, queue, artifact, api, wk, rc, timeVars,
                   settleIssued, settleOk, commits, claimWins, reserveOk, refundOk, ret>>

\* finalize_timeout passes no identity predicate: extra_claim_conditions = {}.
RpClaimCas ==
    /\ rp.pc = "claim_cas"
    /\ claimTried' = claimTried \cup {Reaper}
    /\ LET r == rp.run
           upd == ClaimUpdate(runs, r, rp.ver, Reaper, NoConds)
       IN  IF upd.ok
           THEN /\ runs' = upd.rs
                /\ stuck' = [stuck EXCEPT ![r] = FALSE]
                /\ claimWins' = [claimWins EXCEPT ![r] = @ \cup {Reaper}]
                /\ rp' = [rp EXCEPT !.pc = "settle", !.ver = rp.ver + 1]
                /\ claimErr' = claimErr
           ELSE /\ rp' = RpIdle
                /\ claimErr' = claimErr \cup {Reaper}
                /\ UNCHANGED <<runs, stuck, claimWins>>
    /\ UNCHANGED edgeVars
    /\ UNCHANGED <<ledgerVars, queue, artifact, api, wk, rc, leaseExpired, aged,
                   settleIssued, settleOk, commits, reserveOk, refundOk, ret>>

RpSettle ==
    /\ rp.pc = "settle"
    /\ LET r == rp.run
           res == SettleLua(balance, reserve, receipt, runs[r].tenant, r, rp.charge)
       IN  /\ balance' = res.bal
           /\ reserve' = res.res
           /\ receipt' = res.rcp
           /\ settleIssued' = [settleIssued EXCEPT ![r] = @ \cup {res.status}]
           /\ settleOk' = [settleOk EXCEPT ![r] = @ + (IF res.status = "OK" THEN 1 ELSE 0)]
           /\ rp' = IF res.status = "OK" THEN [rp EXCEPT !.pc = "commit"] ELSE RpIdle
    /\ UNCHANGED edgeVars
    /\ UNCHANGED <<runs, queue, artifact, api, wk, rc, timeVars,
                   commits, claimWins, claimErr, claimTried, reserveOk, refundOk, ret>>

RpCommit ==
    /\ rp.pc = "commit"
    /\ LET r == rp.run
           upd == CommitUpdate(runs, r, rp.ver, Reaper, "FAILED", rp.charge,
                               [reason |-> "WORKER_TIMEOUT"])
       IN  /\ runs' = upd.rs
           /\ commits' = [commits EXCEPT ![r] = @ + (IF upd.ok THEN 1 ELSE 0)]
    /\ rp' = RpIdle
    /\ UNCHANGED edgeVars
    /\ UNCHANGED <<ledgerVars, queue, artifact, api, wk, rc, timeVars,
                   settleIssued, settleOk, claimWins, claimErr, claimTried, reserveOk, refundOk, ret>>

\* The Reaper process dies and is restarted.
RpCrash ==
    /\ rp.pc # "idle"
    /\ rp' = RpIdle
    /\ UNCHANGED edgeVars
    /\ UNCHANGED <<runs, ledgerVars, queue, artifact, api, wk, rc, timeVars, ghostVars>>

NextReaper ==
    \/ \E r \in Requests : RpScan(r)
    \/ RpClaimRead
    \/ RpClaimCas
    \/ RpSettle
    \/ RpCommit
    \/ RpCrash

\* -------------------------------------------------------------- reconciler

\* check_s3_result_exists: no pointers on the run -> False, else the object
\* store is asked.
CheckS3ResultExists(run, art, r) ==
    /\ run.result_key # Null
    /\ r \in DOMAIN art

\* estimate_actual_cost_from_s3: the object's actual-cost-usd-micros
\* metadata, else the fallback.
EstimateActualCostFromS3(art, r, fallback) ==
    IF r \in DOMAIN art THEN art[r] ELSE fallback

\* roll_back / audit / force charge: min(minimum_fee or 0, reservation_max_cost or 0)
MinFeeCharge(run) == Min(run.minimum_fee, run.reservation_max_cost)

\* roll_forward charge: actual_cost_usd_micros or reservation_max_cost_usd_micros
RollForwardCharge(run) ==
    IF run.actual_cost # NoCost /\ run.actual_cost # 0
    THEN run.actual_cost ELSE run.reservation_max_cost

\* scan_stuck_claimed_runs: status = PROCESSING AND finalize_stage = CLAIMED
\* AND finalize_claimed_at < now - 5 min.  The scanned row is what the
\* Reconciler works from.
RcScan(r) ==
    /\ rc.pc = "idle"
    /\ r \in DOMAIN runs
    /\ runs[r].status = "PROCESSING"
    /\ runs[r].finalize_stage = "CLAIMED"
    /\ stuck[r]
    /\ rc' = [RcIdle EXCEPT !.pc = "check", !.run = r, !.row = runs[r]]
    /\ UNCHANGED edgeVars
    /\ UNCHANGED <<runs, ledgerVars, queue, artifact, api, wk, rp, timeVars, ghostVars>>

\* reconcile_stuck_claimed_run: get_reservation decides the path; without a
\* reservation the run's age against RESERVATION_TTL_SECONDS decides between
\* AUDIT_REQUIRED and the forced settle.  Everything is computed from the
\* scanned row.
RcCheck ==
    /\ rc.pc = "check"
    /\ LET r == rc.run
           row == rc.row
           s3 == CheckS3ResultExists(row, artifact, r)
       IN  rc' = IF r \in DOMAIN reserve
                 THEN [rc EXCEPT !.pc = "settle",
                                 !.path = IF s3 THEN "roll_forward" ELSE "roll_back",
                                 !.charge = IF s3 THEN RollForwardCharge(row) ELSE MinFeeCharge(row),
                                 !.final = IF s3 THEN "COMPLETED" ELSE "FAILED"]
                 ELSE IF aged[r]
                 THEN [rc EXCEPT !.pc = "audit", !.path = "audit",
                                 !.charge = MinFeeCharge(row), !.final = "FAILED"]
                 ELSE [rc EXCEPT !.pc = "force", !.path = "force",
                                 !.charge = IF s3
                                            THEN EstimateActualCostFromS3(artifact, r, row.reservation_max_cost)
                                            ELSE MinFeeCharge(row),
                                 !.final = IF s3 THEN "COMPLETED" ELSE "FAILED"]
    /\ UNCHANGED edgeVars
    /\ UNCHANGED <<runs, ledgerVars, queue, artifact, api, wk, rp, timeVars, ghostVars>>

\* roll_forward_stuck_run / roll_back_stuck_run, step 1: settle.
RcSettle ==
    /\ rc.pc = "settle"
    /\ LET r == rc.run
           res == SettleLua(balance, reserve, receipt, rc.row.tenant, r, rc.charge)
       IN  /\ balance' = res.bal
           /\ reserve' = res.res
           /\ receipt' = res.rcp
           /\ settleIssued' = [settleIssued EXCEPT ![r] = @ \cup {res.status}]
           /\ settleOk' = [settleOk EXCEPT ![r] = @ + (IF res.status = "OK" THEN 1 ELSE 0)]
           /\ rc' = IF res.status = "OK" THEN [rc EXCEPT !.pc = "commit", !.charge = res.charge]
                    ELSE RcIdle
    /\ UNCHANGED edgeVars
    /\ UNCHANGED <<runs, queue, artifact, api, wk, rp, timeVars,
                   commits, claimWins, claimErr, claimTried, reserveOk, refundOk, ret>>

\* roll_forward_stuck_run / roll_back_stuck_run, step 2: final commit under
\* the scanned version, WHERE finalize_token and finalize_stage = CLAIMED.
RcCommit ==
    /\ rc.pc = "commit"
    /\ LET r == rc.run
           upd == CommitUpdate(runs, r, rc.row.version, rc.row.finalize_token, rc.final, rc.charge,
                      IF rc.final = "FAILED"
                      THEN [reason |-> "WORKER_CRASH_DURING_FINALIZE"] ELSE NoConds)
       IN  /\ runs' = upd.rs
           /\ commits' = [commits EXCEPT ![r] = @ + (IF upd.ok THEN 1 ELSE 0)]
    /\ rc' = RcIdle
    /\ UNCHANGED edgeVars
    /\ UNCHANGED <<ledgerVars, queue, artifact, api, wk, rp, timeVars,
                   settleIssued, settleOk, claimWins, claimErr, claimTried, reserveOk, refundOk, ret>>

\* The audit write that leaves finalize_stage at CLAIMED.
AuditUpdatesLeavingClaimed(charge) ==
    [status |-> "FAILED", money_state |-> "AUDIT_REQUIRED", actual_cost |-> charge,
     finalize_stage |-> "CLAIMED", reason |-> "MS6_AMBIGUOUS_RESERVATION_MISSING"]

\* reconcile_stuck_claimed_run, age >= TTL: AUDIT_REQUIRED under the scanned
\* version, with no extra condition.
AuditUpdates(charge) ==
    [status |-> "FAILED", money_state |-> "AUDIT_REQUIRED", actual_cost |-> charge,
     finalize_stage |-> "COMMITTED", reason |-> "MS6_AMBIGUOUS_RESERVATION_MISSING"]

RcAudit ==
    /\ rc.pc = "audit"
    /\ LET r == rc.run
           upd == UpdateWithVersionCheck(runs, r, rc.row.tenant, rc.row.version,
                      AuditUpdates(rc.charge), NoConds)
       IN  /\ runs' = upd.rs
           /\ commits' = [commits EXCEPT ![r] = @ + (IF upd.ok THEN 1 ELSE 0)]
    /\ rc' = RcIdle
    /\ UNCHANGED edgeVars
    /\ UNCHANGED <<ledgerVars, queue, artifact, api, wk, rp, timeVars,
                   settleIssued, settleOk, claimWins, claimErr, claimTried, reserveOk, refundOk, ret>>

\* force_update_claimed_only without its WHERE finalize_stage / money_state.
ForceUpdateUnconditionally(rs, r, updates) ==
    IF r \in DOMAIN rs
    THEN [ok |-> TRUE,
          rs |-> [rs EXCEPT ![r] = [f \in DOMAIN rs[r] |->
                     IF f \in DOMAIN updates THEN updates[f] ELSE rs[r][f]]]]
    ELSE [ok |-> FALSE, rs |-> rs]

\* RunRepository.force_update_claimed_only: WHERE run_id AND finalize_stage =
\* CLAIMED AND money_state = RESERVED; the version is not touched.
ForceUpdateClaimedOnly(rs, r, updates) ==
    IF r \in DOMAIN rs /\ rs[r].finalize_stage = "CLAIMED" /\ rs[r].money_state = "RESERVED"
    THEN [ok |-> TRUE,
          rs |-> [rs EXCEPT ![r] = [f \in DOMAIN rs[r] |->
                     IF f \in DOMAIN updates THEN updates[f] ELSE rs[r][f]]]]
    ELSE [ok |-> FALSE, rs |-> rs]

\* reconcile_stuck_claimed_run, age < TTL: the settle is assumed to have
\* succeeded and the run is committed SETTLED.
RcForce ==
    /\ rc.pc = "force"
    /\ LET r == rc.run
           upd == ForceUpdateClaimedOnly(runs, r,
                      [status |-> rc.final, money_state |-> "SETTLED",
                       actual_cost |-> rc.charge, finalize_stage |-> "COMMITTED"]
                      @@ (IF rc.final = "FAILED"
                          THEN [reason |-> "MS6_S3_MISSING_AFTER_SETTLE"] ELSE NoConds))
       IN  /\ runs' = upd.rs
           /\ commits' = [commits EXCEPT ![r] = @ + (IF upd.ok THEN 1 ELSE 0)]
    /\ rc' = RcIdle
    /\ UNCHANGED edgeVars
    /\ UNCHANGED <<ledgerVars, queue, artifact, api, wk, rp, timeVars,
                   settleIssued, settleOk, claimWins, claimErr, claimTried, reserveOk, refundOk, ret>>

\* The Reconciler process dies and is restarted.
RcCrash ==
    /\ rc.pc # "idle"
    /\ rc' = RcIdle
    /\ UNCHANGED edgeVars
    /\ UNCHANGED <<runs, ledgerVars, queue, artifact, api, wk, rp, timeVars, ghostVars>>

NextReconciler ==
    \/ \E r \in Requests : RcScan(r)
    \/ RcCheck
    \/ RcSettle
    \/ RcCommit
    \/ RcAudit
    \/ RcForce
    \/ RcCrash

\* -------------------------------------------------------------------- time
\* The clock passes lease_expires_at.
LeaseExpires(r) ==
    /\ r \in DOMAIN runs
    /\ runs[r].status = "PROCESSING"
    /\ ~leaseExpired[r]
    /\ leaseExpired' = [leaseExpired EXCEPT ![r] = TRUE]
    /\ UNCHANGED edgeVars
    /\ UNCHANGED <<runs, ledgerVars, queue, artifact, api, wk, rp, rc, stuck, aged, ghostVars>>

\* The clock passes finalize_claimed_at + 5 min.
ClaimGetsStuck(r) ==
    /\ r \in DOMAIN runs
    /\ runs[r].finalize_stage = "CLAIMED"
    /\ ~stuck[r]
    /\ stuck' = [stuck EXCEPT ![r] = TRUE]
    /\ UNCHANGED edgeVars
    /\ UNCHANGED <<runs, ledgerVars, queue, artifact, api, wk, rp, rc, leaseExpired, aged, ghostVars>>

\* The clock passes created_at + RESERVATION_TTL_SECONDS.
RunGetsOld(r) ==
    /\ r \in DOMAIN runs
    /\ ~aged[r]
    /\ aged' = [aged EXCEPT ![r] = TRUE]
    /\ UNCHANGED edgeVars
    /\ UNCHANGED <<runs, ledgerVars, queue, artifact, api, wk, rp, rc, leaseExpired, stuck, ghostVars>>

NextTime ==
    \/ \E r \in Requests : LeaseExpires(r)
    \/ \E r \in Requests : ClaimGetsStuck(r)
    \/ \E r \in Requests : RunGetsOld(r)

\* ---------------------------------------------------------- specifications
\* One admitted request and everything that can happen to its run.
NextAdmitSteps ==
    \/ \E p \in Requests : PostLookup(p)
    \/ \E p \in Requests : PostCreate(p)
    \/ \E p \in Requests : PostReserve(p)
    \/ \E p \in Requests : PostReserveFailed(p)
    \/ \E p \in Requests : PostMarkReserved(p)
    \/ \E p \in Requests : PostEnqueue(p)
    \/ \E p \in Requests : PostEnqueueFails(p)
    \/ \E p \in Requests : PostEnqueueFailed(p)
    \/ \E p \in Requests : PostCrash(p)

Next ==
    \/ \E h \in Hashes : PostStart(CoreReq, "t1", "k1", h, PayloadCost(h))
    \/ NextAdmitSteps
    \/ NextWorker
    \/ NextReaper
    \/ NextReconciler
    \/ NextTime

Spec == Init /\ [][Next]_vars
\* -------------------------------------------------------------------- sums
RECURSIVE SumOver(_, _)
SumOver(f, S) ==
    IF S = {} THEN 0
    ELSE LET x == CHOOSE y \in S : TRUE IN f[x] + SumOver(f, S \ {x})

TotalBalance == SumOver(balance, Tenants)
TotalReserved == SumOver([r \in DOMAIN reserve |-> reserve[r].reserved], DOMAIN reserve)
TotalReceipts == SumOver([r \in DOMAIN receipt |-> receipt[r].charged], DOMAIN receipt)
TotalInitial == Cardinality(Tenants) * InitialBalance

\* ------------------------------------------------------------------ claims
\* C1: for every run, under every interleaving of worker, Reaper and
\* Reconciler steps and crashes, at most one conditional update commits the
\* run (finalize_stage is COMMITTED exactly when one did), and once a run is
\* COMMITTED no step changes its row any more: every later attempt is refused.
ExactlyOneCommit ==
    /\ [](\A r \in DOMAIN runs :
            /\ commits[r] <= 1
            /\ (runs[r].finalize_stage = "COMMITTED") <=> (commits[r] = 1))
    /\ [][\A r \in DOMAIN runs :
            runs[r].finalize_stage = "COMMITTED" => runs'[r] = runs[r]]_vars

\* A committed run with a Reconciler that scanned it while it was CLAIMED and
\* now goes on to its own commit.
ExactlyOneCommitWitness ==
    /\ CoreReq \in DOMAIN runs
    /\ runs[CoreReq].finalize_stage = "COMMITTED"
    /\ commits[CoreReq] = 1
    /\ rc.pc \in {"commit", "audit", "force"}

\* C2: among the actors (workers, Reaper) whose finalize attempt on a run
\* came to its end, at most one won the claim and every other one raised
\* ClaimError.
SingleClaimWinner ==
    /\ \A r \in Requests : Cardinality(claimWins[r]) <= 1
    /\ claimTried \subseteq (UNION {claimWins[r] : r \in Requests}) \cup claimErr

\* One actor holds the claim and another one got ClaimError.
SingleClaimWinnerWitness ==
    /\ claimWins[CoreReq] # {}
    /\ claimErr \ claimWins[CoreReq] # {}

\* C3: a run is settled successfully at most once, and once it was settled
\* no later step moves any balance or reservation of it: a second settle is
\* answered ERR_NO_RESERVE.
SettledAtMostOnce ==
    /\ [](\A r \in Requests : settleOk[r] <= 1)
    /\ [][\A r \in Requests :
            settleOk[r] >= 1 => (balance' = balance /\ reserve' = reserve)]_vars

\* A settled run for which a second settle was issued and refused.
SettledAtMostOnceWitness ==
    /\ settleOk[CoreReq] = 1
    /\ settleIssued[CoreReq] = {"OK", "ERR_NO_RESERVE"}

NoSettleBeforeClaim ==
    \A r \in Requests : settleIssued[r] # {} => claimWins[r] # {}

NoSettleBeforeClaimWitness ==
    /\ settleIssued[CoreReq] # {}
    /\ claimWins[CoreReq] # {}

\* C6: whenever the ledger has a receipt for a run and the run has reached
\* its final, COMMITTED record, that record has money_state = SETTLED and
\* actual_cost equal to the charge of the receipt.
ReceiptImpliesSettled ==
    \A r \in DOMAIN receipt :
        runs[r].finalize_stage = "COMMITTED" =>
            /\ runs[r].money_state = "SETTLED"
            /\ runs[r].actual_cost = receipt[r].charged

\* C9: every run whose status is COMPLETED, FAILED or TIMED_OUT has
\* money_state in {SETTLED, REFUNDED, AUDIT_REQUIRED} and finalize_stage =
\* COMMITTED.
TerminalImpliesCommitted ==
    \A r \in DOMAIN runs :
        runs[r].status \in {"COMPLETED", "FAILED", "TIMED_OUT"} =>
            /\ runs[r].money_state \in {"SETTLED", "REFUNDED", "AUDIT_REQUIRED"}
            /\ runs[r].finalize_stage = "COMMITTED"

Accepted(p) == api[p].pc = "done" /\ api[p].code = 202
SameTriple(p, q) ==
    /\ api[p].pc # "none" /\ api[q].pc # "none"
    /\ api[p].tenant = api[q].tenant
    /\ api[p].key = api[q].key
    /\ api[p].hash = api[q].hash
\* Successful RESERVE_LUA calls (each one decrements the balance once) for
\* the runs of a request's (tenant, Idempotency-Key).
ReservationsMade(p) ==
    SumOver(reserveOk, RunsByIdempotencyKey(runs, api[p].tenant, api[p].key))

\* Every POST of p's triple has been answered.
AllAnswered(p) ==
    \A q \in Requests : SameTriple(p, q) => api[q].pc = "done"

\* C7 as stated: once the POSTs with one (tenant, Idempotency-Key,
\* payload_hash) have all been answered, those answered with a run_id all got
\* the same one, and together they created exactly one reservation (the
\* balance was decremented once).
IdempotentReplayExactlyOnce ==
    \A p \in Requests : (Accepted(p) /\ AllAnswered(p)) =>
        /\ \A q \in Requests : (Accepted(q) /\ SameTriple(p, q)) => api[q].run_id = api[p].run_id
        /\ ReservationsMade(p) = 1

\* C7 as amended: POSTs with one (tenant, Idempotency-Key, payload_hash)
\* never create more than one run or more than one reservation, those
\* answered 202 all carry the same run_id, and when the POST that created the
\* run is itself answered 202 exactly one reservation was created.
IdempotentReplayAtMostOnce ==
    \A p \in Requests : api[p].pc # "none" =>
        /\ Cardinality(RunsByIdempotencyKey(runs, api[p].tenant, api[p].key)) <= 1
        /\ ReservationsMade(p) <= 1
        /\ Accepted(p) =>
              /\ \A q \in Requests :
                    (Accepted(q) /\ SameTriple(p, q)) => api[q].run_id = api[p].run_id
              /\ Accepted(api[p].run_id) => ReservationsMade(p) = 1

\* Two accepted POSTs of one triple: one run_id, one reservation, the balance
\* down by the reserved amount once.
IdempotentReplayWitness ==
    /\ Accepted("p1") /\ Accepted("p2")
    /\ SameTriple("p1", "p2")
    /\ api["p1"].run_id = api["p2"].run_id
    /\ ReservationsMade("p1") = 1
    /\ balance[api["p1"].tenant] = InitialBalance - api[api["p1"].run_id].cost

\* C8: a POST whose (tenant, Idempotency-Key) names a run of another request
\* with a different payload_hash has created no run and no reservation, and
\* its answer is 409; also while the first POST is still running.
ConflictCreatesNothing ==
    \A p \in Requests :
        (/\ api[p].pc # "none"
         /\ \E r \in RunsByIdempotencyKey(runs, api[p].tenant, api[p].key) \ {p} :
               runs[r].payload_hash # api[p].hash) =>
            /\ p \notin DOMAIN runs
            /\ p \notin DOMAIN reserve
            /\ reserveOk[p] = 0
            /\ api[p].pc = "done" => api[p].code = 409

\* The second POST got its 409 while the first one was still in its
\* admission.
ConflictCreatesNothingWitness ==
    /\ api["p2"].pc = "done" /\ api["p2"].code = 409
    /\ api["p1"].pc \in {"reserve", "mark", "enqueue"}
    /\ api["p1"].tenant = api["p2"].tenant /\ api["p1"].key = api["p2"].key
    /\ api["p1"].hash # api["p2"].hash
    /\ DOMAIN runs = {"p1"}
\* ---------------------------------------------------------- claims C11..C20
\* C11: whenever a run has an actual_cost, it is at most the run's
\* reservation_max_cost, whichever actor wrote the terminal record.
ActualCostWithinReservation ==
    \A r \in DOMAIN runs :
        runs[r].actual_cost # NoCost =>
            runs[r].actual_cost <= runs[r].reservation_max_cost

\* A run whose reservation is below the executor's cost, committed by its
\* worker at the capped cost.
ActualCostWithinReservationWitness ==
    /\ CoreReq \in DOMAIN runs
    /\ runs[CoreReq].status = "COMPLETED"
    /\ runs[CoreReq].reservation_max_cost < StubCost
    /\ runs[CoreReq].actual_cost = runs[CoreReq].reservation_max_cost
\* C12: a heartbeat of worker w changes the run (extends its lease) only in
\* a state where the run's lease_token is w's and status = PROCESSING, and
\* a final commit of worker w takes effect only in such a state too.
LeaseSafety ==
    [][\A w \in Workers :
         LET r == wk[w].run
             HeartbeatExtends == /\ wk[w].hb \in {"sending", "draining"}
                                 /\ wk'[w].hb \in {"idle", "off"}
                                 /\ runs' # runs
             WorkerCommits == /\ wk[w].pc = "commit"
                              /\ wk'[w].pc # "commit"
                              /\ runs' # runs
         IN  (HeartbeatExtends \/ WorkerCommits) =>
                 /\ runs[r].lease_token = w
                 /\ runs[r].status = "PROCESSING"]_vars

\* A run completed by its worker after one heartbeat had extended the lease:
\* create 0, reserve 1, PROCESSING 2, heartbeat 3, claim 4, commit 5.
LeaseSafetyWitness ==
    /\ CoreReq \in DOMAIN runs
    /\ runs[CoreReq].status = "COMPLETED"
    /\ runs[CoreReq].version = 5
\* ----------------------------------------------- the worker of src/apps/worker
\* apps/worker .. sqs_loop.py: _process_message returns on a missing run and
\* on any status but QUEUED; run_once deletes the message after every return.
LegacyLoad(w) ==
    /\ wk[w].pc = "load"
    /\ LET r == wk[w].run
       IN  IF r \in DOMAIN runs /\ runs[r].status = "QUEUED"
           THEN /\ wk' = [wk EXCEPT ![w].pc = "to_processing", ![w].ver = runs[r].version]
                /\ queue' = queue
           ELSE /\ wk' = [wk EXCEPT ![w] = WkIdle]
                /\ queue' = queue \ {r}
    /\ UNCHANGED edgeVars
    /\ UNCHANGED <<runs, ledgerVars, artifact, api, rp, rc, timeVars, ghostVars>>

\* QUEUED -> PROCESSING under the version read (no extra condition, no
\* heartbeat).
LegacyToProcessing(w) ==
    /\ wk[w].pc = "to_processing"
    /\ LET r == wk[w].run
           upd == UpdateWithVersionCheck(runs, r, runs[r].tenant, wk[w].ver,
                      [status |-> "PROCESSING", lease_token |-> w], NoConds)
       IN  IF upd.ok
           THEN /\ runs' = upd.rs
                /\ leaseExpired' = [leaseExpired EXCEPT ![r] = FALSE]
                /\ wk' = [wk EXCEPT ![w].pc = "exec"]
                /\ queue' = queue
           ELSE /\ runs' = runs
                /\ leaseExpired' = leaseExpired
                /\ wk' = [wk EXCEPT ![w] = WkIdle]
                /\ queue' = queue \ {r}
    /\ UNCHANGED edgeVars
    /\ UNCHANGED <<ledgerVars, artifact, api, rp, rc, stuck, aged, ghostVars>>

\* executor.execute returns; the envelope is built.
LegacyExecuteOk(w) ==
    /\ wk[w].pc = "exec"
    /\ wk' = [wk EXCEPT ![w].pc = "put", ![w].mode = "success",
                        ![w].cost = StubActualCost(runs[wk[w].run].reservation_max_cost)]
    /\ UNCHANGED edgeVars
    /\ UNCHANGED <<runs, ledgerVars, queue, artifact, api, rp, rc, timeVars, ghostVars>>

\* executor.execute raises: outer except, finalize_failure.
LegacyExecuteFails(w) ==
    /\ wk[w].pc = "exec"
    /\ wk' = [wk EXCEPT ![w] = ToFailurePath(wk[w])]
    /\ UNCHANGED edgeVars
    /\ UNCHANGED <<runs, ledgerVars, queue, artifact, api, rp, rc, timeVars, ghostVars>>

\* "5. Upload to S3", then "6. 2-phase finalize (SUCCESS)".
LegacyUploadOk(w) ==
    /\ wk[w].pc = "put"
    /\ artifact' = IF wk[w].run \in DOMAIN artifact
                   THEN [artifact EXCEPT ![wk[w].run] = NoCost]
                   ELSE artifact @@ (wk[w].run :> NoCost)
    /\ wk' = [wk EXCEPT ![w].pc = "claim_read"]
    /\ UNCHANGED edgeVars
    /\ UNCHANGED <<runs, ledgerVars, queue, api, rp, rc, timeVars, ghostVars>>

\* s3.put_object raises: outer except, finalize_failure.
LegacyUploadFails(w) ==
    /\ wk[w].pc = "put"
    /\ wk' = [wk EXCEPT ![w] = ToFailurePath(wk[w])]
    /\ UNCHANGED edgeVars
    /\ UNCHANGED <<runs, ledgerVars, queue, artifact, api, rp, rc, timeVars, ghostVars>>

\* finalize_success / finalize_failure -> _do_2phase_finalize: read and
\* pre-check.  ClaimError: return (the message is deleted).
LegacyClaimRead(w) ==
    /\ wk[w].pc = "claim_read"
    /\ LET r == wk[w].run
           pre == ClaimPrecheck(runs, r, WkCharge(w))
       IN  IF pre = "claim"
           THEN /\ wk' = [wk EXCEPT ![w].pc = "claim_cas", ![w].ver = runs[r].version]
                /\ UNCHANGED <<queue, claimErr, claimTried>>
           ELSE IF pre = "ClaimError"
           THEN /\ wk' = [wk EXCEPT ![w] = WkIdle]
                /\ queue' = queue \ {r}
                /\ claimErr' = claimErr \cup {w}
                /\ claimTried' = claimTried \cup {w}
           ELSE /\ wk' = [wk EXCEPT ![w] = AfterFinalizeError(wk[w])]
                /\ claimTried' = claimTried \cup {w}
                /\ UNCHANGED <<queue, claimErr>>
    /\ UNCHANGED edgeVars
    /\ UNCHANGED <<runs, ledgerVars, artifact, api, rp, rc, timeVars,
                   settleIssued, settleOk, commits, claimWins, reserveOk, refundOk, ret>>

\* _do_2phase_finalize, Phase A; the winner settles next.
LegacyClaimCas(w) ==
    /\ wk[w].pc = "claim_cas"
    /\ claimTried' = claimTried \cup {w}
    /\ LET r == wk[w].run
           upd == ClaimUpdate(runs, r, wk[w].ver, w, [lease_token |-> w])
       IN  IF upd.ok
           THEN /\ runs' = upd.rs
                /\ stuck' = [stuck EXCEPT ![r] = FALSE]
                /\ claimWins' = [claimWins EXCEPT ![r] = @ \cup {w}]
                /\ wk' = [wk EXCEPT ![w] = [AfterClaim(wk[w], TRUE) EXCEPT !.pc = "settle"]]
                /\ UNCHANGED <<queue, claimErr>>
           ELSE /\ wk' = [wk EXCEPT ![w] = WkIdle]
                /\ queue' = queue \ {r}
                /\ claimErr' = claimErr \cup {w}
                /\ UNCHANGED <<runs, stuck, claimWins>>
    /\ UNCHANGED edgeVars
    /\ UNCHANGED <<ledgerVars, artifact, api, rp, rc, leaseExpired, aged,
                   settleIssued, settleOk, commits, reserveOk, refundOk, ret>>

NextLegacyWorker ==
    \/ \E w \in Workers, r \in Requests : WkReceive(w, r)
    \/ \E w \in Workers : LegacyLoad(w)
    \/ \E w \in Workers : LegacyToProcessing(w)
    \/ \E w \in Workers : LegacyExecuteOk(w)
    \/ \E w \in Workers : LegacyExecuteFails(w)
    \/ \E w \in Workers : LegacyUploadOk(w)
    \/ \E w \in Workers : LegacyUploadFails(w)
    \/ \E w \in Workers : LegacyClaimRead(w)
    \/ \E w \in Workers : LegacyClaimCas(w)
    \/ \E w \in Workers : WkSettle(w)
    \/ \E w \in Workers : WkCommit(w)
    \/ \E w \in Workers : WkCrash(w)

\* One admitted request, the workers of src/apps/worker and the Reaper.
NextLegacy ==
    \/ \E h \in Hashes : PostStart(CoreReq, "t1", "k1", h, PayloadCost(h))
    \/ NextAdmitSteps
    \/ NextLegacyWorker
    \/ NextReaper
    \/ \E r \in Requests : LeaseExpires(r)

SpecLegacy == Init /\ [][NextLegacy]_vars

\* C13: an artifact exists only for a run that a worker has claimed, a
\* worker settles a successful run only after its upload, and it commits only
\* after a settle went through: claim, upload, settle, final commit.
FinalizeOrder ==
    /\ \A r \in DOMAIN artifact : claimWins[r] \cap Workers # {}
    /\ \A w \in Workers :
          /\ (wk[w].pc = "settle" /\ wk[w].mode = "success") =>
                 /\ w \in claimWins[wk[w].run]
                 /\ wk[w].run \in DOMAIN artifact
          /\ wk[w].pc = "commit" =>
                 /\ w \in claimWins[wk[w].run]
                 /\ settleOk[wk[w].run] >= 1
\* C14: with the reservation still present the Reconciler decides by the
\* existence of the artifact: it exists -> roll forward, settle the recorded
\* actual_cost (the reservation maximum if none) and commit COMPLETED; it is
\* missing -> roll back, settle min(minimum_fee, reserved) and commit FAILED
\* with reason WORKER_CRASH_DURING_FINALIZE.
ReconcilerDecidesByArtifact ==
    [][LET r == rc.run
           Decides == rc.pc = "check" /\ rc'.pc = "settle"
           Commits == rc.pc = "commit" /\ rc'.pc = "idle" /\ runs' # runs
       IN  /\ Decides =>
                 IF r \in DOMAIN artifact
                 THEN /\ rc'.final = "COMPLETED"
                      /\ rc'.charge = RollForwardCharge(rc.row)
                 ELSE /\ rc'.final = "FAILED"
                      /\ rc'.charge = Min(rc.row.minimum_fee, rc.row.reservation_max_cost)
           /\ Commits =>
                 /\ runs'[r].status = rc.final
                 /\ runs'[r].actual_cost = rc.charge
                 /\ runs'[r].status = "FAILED" =>
                        runs'[r].reason = "WORKER_CRASH_DURING_FINALIZE"]_vars
ReservationExpires(r) ==
    /\ r \in DOMAIN reserve
    /\ aged[r]
    /\ reserve' = RemoveKey(reserve, r)
    /\ UNCHANGED edgeVars
    /\ UNCHANGED <<runs, balance, receipt, queue, artifact, api, wk, rp, rc, timeVars, ghostVars>>

NextTtl ==
    \/ Next
    \/ \E r \in Requests : ReservationExpires(r)

SpecTtl == Init /\ [][NextTtl]_vars

\* C16: a stuck CLAIMED run with neither a reservation nor a settlement
\* receipt is committed by the Reconciler as AUDIT_REQUIRED with
\* actual_cost = 0 and reason NO_SETTLEMENT_RECEIPT.
AuditWithoutCharge ==
    [][LET r == rc.run
       IN  (/\ rc.pc \in {"audit", "force"}
            /\ rc'.pc = "idle"
            /\ runs' # runs
            /\ r \notin DOMAIN reserve
            /\ r \notin DOMAIN receipt) =>
               /\ runs'[r].money_state = "AUDIT_REQUIRED"
               /\ runs'[r].actual_cost = 0
               /\ runs'[r].reason = "NO_SETTLEMENT_RECEIPT"]_vars
\* C17: a run committed by finalize_timeout is FAILED with reason
\* WORKER_TIMEOUT, was charged exactly min(minimum_fee, reserved), and the
\* rest of its reservation is back in the tenant's balance.
TimeoutChargesMinimumFee ==
    \A r \in DOMAIN runs :
        runs[r].reason = "WORKER_TIMEOUT" =>
            /\ runs[r].status = "FAILED"
            /\ runs[r].money_state = "SETTLED"
            /\ runs[r].finalize_stage = "COMMITTED"
            /\ runs[r].actual_cost = Min(runs[r].minimum_fee, runs[r].reservation_max_cost)
            /\ r \notin DOMAIN reserve
            /\ balance[runs[r].tenant] = InitialBalance - runs[r].actual_cost

\* The Reaper won the claim and committed.
TimeoutChargesMinimumFeeWitness ==
    /\ CoreReq \in DOMAIN runs
    /\ Reaper \in claimWins[CoreReq]
    /\ runs[CoreReq].reason = "WORKER_TIMEOUT"
    /\ runs[CoreReq].actual_cost < runs[CoreReq].reservation_max_cost
\* ------------------------------------------------- the ledger scripts alone
\* Amounts a caller reserves: the admitted max_cost values.
LedgerAmounts == {PayloadCost(h) : h \in Hashes}

\* Charges a caller asks settle for: a negative one, a part of the
\* reservation, and 100 times the reservation.
ChargeKinds == {"negative", "part", "hundredfold"}

LedgerCharge(kind, reserved) ==
    IF kind = "negative" THEN 0 - StubCost
    ELSE IF kind = "part" THEN StubCost
    ELSE 100 * reserved

\* Script calls answered OK so far.
LedgerCalls ==
    LET n(r) == reserveOk[r] + settleOk[r] + refundOk[r]
    IN  n("p1") + n("p2")

\* BudgetScripts.reserve(tenant_id, run_id, reserved_usd_micros)
LedgerReserve(t, r, amount) ==
    /\ LedgerCalls < MaxLedgerCalls
    /\ LET res == ReserveLua(balance, reserve, t, r, amount)
       IN  /\ balance' = res.bal
           /\ reserve' = res.res
           /\ reserveOk' = [reserveOk EXCEPT ![r] = @ + (IF res.status = "OK" THEN 1 ELSE 0)]
           /\ ret' = [op |-> "reserve", tenant |-> t, run |-> r, arg |-> amount,
                      status |-> res.status, charge |-> 0, refund |-> 0]
    /\ UNCHANGED edgeVars
    /\ UNCHANGED <<runs, receipt, queue, artifact, api, wk, rp, rc, timeVars,
                   settleIssued, settleOk, commits, claimWins, claimErr, claimTried, refundOk>>

\* BudgetScripts.settle(tenant_id, run_id, charge_usd_micros); callers pass
\* the tenant of the run.
LedgerSettle(t, r, kind) ==
    /\ LedgerCalls < MaxLedgerCalls
    /\ r \in DOMAIN reserve => t = reserve[r].tenant
    /\ LET requested == LedgerCharge(kind, IF r \in DOMAIN reserve
                                           THEN reserve[r].reserved ELSE StubCost)
           res == SettleLua(balance, reserve, receipt, t, r, requested)
       IN  /\ balance' = res.bal
           /\ reserve' = res.res
           /\ receipt' = res.rcp
           /\ settleIssued' = [settleIssued EXCEPT ![r] = @ \cup {res.status}]
           /\ settleOk' = [settleOk EXCEPT ![r] = @ + (IF res.status = "OK" THEN 1 ELSE 0)]
           /\ ret' = [op |-> "settle", tenant |-> t, run |-> r, arg |-> requested,
                      status |-> res.status, charge |-> res.charge, refund |-> res.refund]
    /\ UNCHANGED edgeVars
    /\ UNCHANGED <<runs, queue, artifact, api, wk, rp, rc, timeVars,
                   commits, claimWins, claimErr, claimTried, reserveOk, refundOk>>

\* BudgetScripts.refund_full(tenant_id, run_id)
LedgerRefund(t, r) ==
    /\ LedgerCalls < MaxLedgerCalls
    /\ r \in DOMAIN reserve => t = reserve[r].tenant
    /\ LET res == RefundFullLua(balance, reserve, t, r)
       IN  /\ balance' = res.bal
           /\ reserve' = res.res
           /\ refundOk' = [refundOk EXCEPT ![r] = @ + (IF res.status = "OK" THEN 1 ELSE 0)]
           /\ ret' = [op |-> "refund_full", tenant |-> t, run |-> r, arg |-> 0,
                      status |-> res.status, charge |-> 0,
                      refund |-> IF res.status = "OK" THEN reserve[r].reserved ELSE 0]
    /\ UNCHANGED edgeVars
    /\ UNCHANGED <<runs, receipt, queue, artifact, api, wk, rp, rc, timeVars,
                   settleIssued, settleOk, commits, claimWins, claimErr, claimTried, reserveOk>>

\* Any number of clients call the scripts in any order; each script runs
\* atomically in the store.
NextLedger ==
    \/ \E t \in Tenants, r \in Requests, a \in LedgerAmounts : LedgerReserve(t, r, a)
    \/ \E t \in Tenants, r \in Requests, k \in ChargeKinds : LedgerSettle(t, r, k)
    \/ \E t \in Tenants, r \in Requests : LedgerRefund(t, r)

SpecLedger == Init /\ [][NextLedger]_vars
\* C18: settle on an existing reservation answers OK with charge =
\* clamp(requested, 0, reserved) and refund = reserved - charge and raises
\* the tenant's balance by exactly the refund, whatever the requested value
\* (negative, 100 times the reservation); no balance ever goes negative.
SettleClamps ==
    [][/\ \A t \in Tenants : balance'[t] >= 0
       /\ (/\ ret'.op = "settle"
           /\ ret'.run \in DOMAIN reserve
           /\ ret'.run \notin DOMAIN reserve') =>
              LET reserved == reserve[ret'.run].reserved
                  requested == ret'.arg
                  clamp == IF requested < 0 THEN 0
                           ELSE IF requested > reserved THEN reserved ELSE requested
              IN  /\ ret'.status = "OK"
                  /\ ret'.charge = clamp
                  /\ ret'.refund = reserved - clamp
                  /\ balance' = [balance EXCEPT ![ret'.tenant] = @ + ret'.refund]]_vars

\* A settle asked for 100 times the reservation and took the reservation.
SettleClampsWitness ==
    /\ ret.op = "settle"
    /\ ret.status = "OK"
    /\ ret.charge > 0
    /\ ret.arg = 100 * ret.charge
    /\ ret.refund = 0

\* C19: a script call answered ERR_ALREADY_RESERVED (reserve:{run} exists),
\* ERR_INSUFFICIENT (balance < amount) or ERR_NO_RESERVE (no reservation)
\* leaves every balance and reservation unchanged; so among the reserves for
\* one run whose reservation was never released exactly one succeeded, and
\* the balance was deducted once.
LedgerErrorsChangeNothing ==
    [][LET t == ret'.tenant
           r == ret'.run
           Unreleased(x) == settleOk'[x] = 0 /\ refundOk'[x] = 0
       IN  /\ ret'.status \in {"ERR_ALREADY_RESERVED", "ERR_INSUFFICIENT", "ERR_NO_RESERVE"} =>
                  balance' = balance /\ reserve' = reserve /\ receipt' = receipt
           /\ ret'.op = "reserve" =>
                  /\ ret'.status = "ERR_ALREADY_RESERVED" <=> r \in DOMAIN reserve
                  /\ ret'.status = "ERR_INSUFFICIENT" <=>
                         (r \notin DOMAIN reserve /\ balance[t] < ret'.arg)
                  /\ ret'.status = "OK" =>
                         /\ balance' = [balance EXCEPT ![t] = @ - ret'.arg]
                         /\ reserve'[r] = [tenant |-> t, reserved |-> ret'.arg]
           /\ ret'.op \in {"settle", "refund_full"} =>
                  (ret'.status = "ERR_NO_RESERVE" <=> r \notin DOMAIN reserve)
           /\ \A x \in Requests :
                  Unreleased(x) =>
                      /\ reserveOk'[x] <= 1
                      /\ reserveOk'[x] = 1 <=> x \in DOMAIN reserve'
           /\ (\A x \in Requests : Unreleased(x)) =>
                  TotalBalance' + TotalReserved' = TotalInitial]_vars

\* A second reserve for a run that holds its reservation was refused.
LedgerErrorsChangeNothingWitness ==
    /\ ret.op = "reserve"
    /\ ret.status = "ERR_ALREADY_RESERVED"
    /\ reserveOk[ret.run] = 1
    /\ settleOk[ret.run] = 0
    /\ refundOk[ret.run] = 0
    /\ ret.run \in DOMAIN reserve
    /\ balance[reserve[ret.run].tenant] = InitialBalance - reserve[ret.run].reserved
\* C20: an admission answered 402 because max_cost exceeds the balance has
\* left no run stored, no reservation, and the balance as it was.
InsufficientLeavesNothing ==
    \A p \in Requests :
        (api[p].pc = "done" /\ api[p].code = 402) =>
            /\ p \notin DOMAIN runs
            /\ p \notin DOMAIN reserve
            /\ reserveOk[p] = 0
            /\ \A t \in Tenants :
                  balance[t] + SumOver([r \in DOMAIN reserve |-> reserve[r].reserved],
                                       {r \in DOMAIN reserve : reserve[r].tenant = t})
                      = InitialBalance

\* C20, amended: such an admission has created no reservation and left the
\* balance as it was; its run is stored, FAILED / REFUNDED with reason
\* BUDGET_RESERVE_FAILED, and was never enqueued.
InsufficientLeavesFailedRun ==
    \A p \in Requests :
        (api[p].pc = "done" /\ api[p].code = 402) =>
            /\ p \in DOMAIN runs
            /\ runs[p].status = "FAILED"
            /\ runs[p].money_state = "REFUNDED"
            /\ runs[p].reason = "BUDGET_RESERVE_FAILED"
            /\ p \notin queue
            /\ p \notin DOMAIN reserve
            /\ reserveOk[p] = 0
            /\ \A t \in Tenants :
                  balance[t] + SumOver([r \in DOMAIN reserve |-> reserve[r].reserved],
                                       {r \in DOMAIN reserve : reserve[r].tenant = t})
                      = InitialBalance

\* A POST asking for more than the whole balance was answered 402.
InsufficientLeavesFailedRunWitness ==
    /\ api["p1"].pc = "done" /\ api["p1"].code = 402
    /\ api["p1"].cost > InitialBalance
    /\ balance[api["p1"].tenant] = InitialBalance
\* ---------------------------------------------------------- claims C21..C30
\* The balance of every tenant plus what its reservations hold is the
\* balance it started with.
NothingCharged ==
    \A t \in Tenants :
        balance[t] + SumOver([r \in DOMAIN reserve |-> reserve[r].reserved],
                             {r \in DOMAIN reserve : reserve[r].tenant = t})
            = InitialBalance

RateFrame ==
    UNCHANGED <<runs, ledgerVars, queue, artifact, api, wk, rp, rc, timeVars, ghostVars, got>>

\* redis.incr(rate_key): a missing key counts from 0 and is created without
\* TTL.  The caller passes when the value returned is within the limit.
RlIncr(q) ==
    /\ rl[q].pc = "idle"
    /\ LET new_count == (IF rateKey.exists THEN rateKey.value ELSE 0) + 1
       IN  /\ rateKey' = [exists |-> TRUE, value |-> new_count,
                          ttl |-> rateKey.exists /\ rateKey.ttl]
           /\ rl' = [rl EXCEPT ![q] = [pc |-> IF new_count = 1 THEN "expire"
                                              ELSE IF new_count > RateLimit THEN "decr"
                                              ELSE "passed",
                                       n |-> new_count]]
           /\ passes' = passes + (IF new_count <= RateLimit THEN 1 ELSE 0)
    /\ RateFrame

\* if new_count == 1: redis.expire(rate_key, 60); then the limit check.
RlExpire(q) ==
    /\ rl[q].pc = "expire"
    /\ rateKey' = IF rateKey.exists THEN [rateKey EXCEPT !.ttl = TRUE] ELSE rateKey
    /\ rl' = [rl EXCEPT ![q].pc = IF rl[q].n > RateLimit THEN "decr" ELSE "passed"]
    /\ passes' = passes
    /\ RateFrame

\* new_count > limit: redis.decr(rate_key), then the 429.  A missing key
\* counts from 0 and is created without TTL.
RlDecr(q) ==
    /\ rl[q].pc = "decr"
    /\ rateKey' = [exists |-> TRUE,
                   value |-> (IF rateKey.exists THEN rateKey.value ELSE 0) - 1,
                   ttl |-> rateKey.exists /\ rateKey.ttl]
    /\ rl' = [rl EXCEPT ![q].pc = "rejected"]
    /\ passes' = passes
    /\ RateFrame

\* The 60 seconds of the key have passed: the store drops it and a new
\* window begins.
RateKeyExpires ==
    /\ rateKey.exists
    /\ rateKey.ttl
    /\ rateKey' = NoKey
    /\ passes' = 0
    /\ rl' = rl
    /\ RateFrame

NextRate ==
    \/ \E q \in RateCallers : RlIncr(q)
    \/ \E q \in RateCallers : RlExpire(q)
    \/ \E q \in RateCallers : RlDecr(q)
    \/ RateKeyExpires

SpecRate == Init /\ [][NextRate]_vars

\* C22: with a submit limit of N per window, any number of concurrent
\* admissions of one tenant pass at most N times in a window, exactly N
\* times once N of them have counted, every other one is rejected, and a
\* rejected one has rolled its increment back.
RateLimitExact ==
    /\ passes <= RateLimit
    /\ \A q \in RateCallers :
          rl[q].pc \in {"decr", "rejected"} => rl[q].n > RateLimit
    /\ rateKey.exists =>
          rateKey.value <= passes + Cardinality({q \in RateCallers : rl[q].pc = "decr"})
\* ------------------------------------------ minimum fee over all max_cost
\* reservation.max_cost values a client can send: "^\d+(\.\d{1,4})?$" in
\* micros, around the floor, the 2% rule and the cap.
MaxCosts == {0, 1000, 4999, 5000, 5001, 30000, 250000, 260000, 5000000, 6000000}

\* src/apps/api create_run: minimum_fee = min(max(5_000, int(max_cost * 0.02)), 100_000)
LegacyMinimumFee(max_cost) ==
    Min(Max(FeeFloor, (max_cost * 2) \div 100), FeeCap)

\* Each request comes with its own Idempotency-Key and a body whose
\* max_cost is drawn from MaxCosts.
FeePost(p, c) ==
    /\ api[p].pc = "none"
    /\ api' = [api EXCEPT ![p] = [pc |-> "lookup", tenant |-> "t1",
                                  key |-> IF p = CoreReq THEN "k1" ELSE "k2",
                                  hash |-> IF p = CoreReq THEN "h1" ELSE "h2",
                                  cost |-> c, code |-> 0, run_id |-> Null]]
    /\ UNCHANGED edgeVars
    /\ UNCHANGED <<runs, ledgerVars, queue, artifact, wk, rp, rc, timeVars, ghostVars>>

\* src/apps/api create_run: no floor on max_cost, the fee without the
\* reservation in the clamp, then repo.create.
LegacyPostCreate(p) ==
    /\ api[p].pc = "create"
    /\ IF UniqueViolation(runs, api[p].tenant, api[p].key)
       THEN /\ api' = [api EXCEPT ![p] = ReplayOrConflict(api[p],
                          CHOOSE r \in RunsByIdempotencyKey(runs, api[p].tenant, api[p].key) : TRUE)]
            /\ runs' = runs
       ELSE /\ runs' = runs @@ (p :> [NewRun(api[p].tenant, api[p].key, api[p].hash, api[p].cost)
                                       EXCEPT !.minimum_fee = LegacyMinimumFee(api[p].cost)])
            /\ api' = [api EXCEPT ![p].pc = "reserve", ![p].run_id = p]
    /\ UNCHANGED edgeVars
    /\ UNCHANGED <<ledgerVars, queue, artifact, wk, rp, rc, timeVars, ghostVars>>

\* Admission up to the stored run, by either copy of create_run.
NextFee ==
    \/ \E p \in Requests, c \in MaxCosts : FeePost(p, c)
    \/ \E p \in Requests : PostLookup(p)
    \/ \E p \in Requests : PostCreate(p)
    \/ \E p \in Requests : LegacyPostCreate(p)

SpecFee == Init /\ [][NextFee]_vars

\* C23: every run created by admission has
\* 0 <= minimum_fee <= reservation_max_cost.
FeeWithinReservation ==
    \A r \in DOMAIN runs :
        /\ 0 <= runs[r].minimum_fee
        /\ runs[r].minimum_fee <= runs[r].reservation_max_cost
\* ------------------------------------------------------------- liveness
\* The Reconciler loop runs every interval for ever, and a pass of it that
\* is started over and over is not killed every time; the clock reaches
\* finalize_claimed_at + 5 min.  Nothing is assumed of workers, Reaper or
\* API.
ReconcilerRuns ==
    /\ WF_vars(\E r \in Requests : ClaimGetsStuck(r))
    /\ SF_vars(\E r \in Requests : RcScan(r))
    /\ SF_vars(RcCheck)
    /\ SF_vars(RcSettle)
    /\ SF_vars(RcCommit)
    /\ SF_vars(RcAudit)
    /\ SF_vars(RcForce)

\* One request, one worker process (restarted after every crash), Reaper,
\* Reconciler and the clock.
LiveWorker == "w1"
\* A body the balance covers and one it does not.
LiveHashes == {"h1", "h2"}

NextLive ==
    \/ \E h \in LiveHashes : PostStart(CoreReq, "t1", "k1", h, PayloadCost(h))
    \/ NextAdmitSteps
    \/ \E r \in Requests : WkReceive(LiveWorker, r)
    \/ WkLoad(LiveWorker)
    \/ WkToProcessing(LiveWorker)
    \/ WkExecuteOk(LiveWorker)
    \/ WkExecuteFails(LiveWorker)
    \/ WkClaimRead(LiveWorker)
    \/ WkClaimCas(LiveWorker)
    \/ WkUploadOk(LiveWorker)
    \/ WkUploadFails(LiveWorker)
    \/ WkSettle(LiveWorker)
    \/ WkCommit(LiveWorker)
    \/ WkCrash(LiveWorker)
    \/ HbBegin(LiveWorker)
    \/ HbSend(LiveWorker)
    \/ NextReaper
    \/ NextReconciler
    \/ NextTime

SpecLive == Init /\ [][NextLive]_vars /\ ReconcilerRuns

\* C24: every run whose finalize_stage becomes CLAIMED eventually reaches
\* COMMITTED, by its claimant's commit or by the Reconciler, wherever the
\* claimant crashes or fails.
ClaimedLeadsToCommitted ==
    \A r \in Requests :
        (r \in DOMAIN runs /\ runs[r].finalize_stage = "CLAIMED")
            ~> (r \in DOMAIN runs /\ runs[r].finalize_stage = "COMMITTED")
\* A run claimed by a worker that the Reconciler, not the worker, committed.
ClaimedLeadsToCommittedWitness ==
    /\ CoreReq \in DOMAIN runs
    /\ LiveWorker \in claimWins[CoreReq]
    /\ runs[CoreReq].finalize_stage = "COMMITTED"
    /\ runs[CoreReq].reason \in {"WORKER_CRASH_DURING_FINALIZE", "MS6_S3_MISSING_AFTER_SETTLE",
                                 "MS6_AMBIGUOUS_RESERVATION_MISSING"}

\* C25: a run is created with money_state NONE; the only changes of
\* money_state are NONE -> RESERVED, RESERVED -> SETTLED and
\* RESERVED -> REFUNDED, so that SETTLED and REFUNDED are final and reached
\* at most once.
MoneyStateChanges ==
    {<<"NONE", "RESERVED">>, <<"RESERVED", "SETTLED">>, <<"RESERVED", "REFUNDED">>}

MoneyStateLifecycle ==
    [][\A r \in DOMAIN runs' :
          IF r \in DOMAIN runs
          THEN \/ runs'[r].money_state = runs[r].money_state
               \/ <<runs[r].money_state, runs'[r].money_state>> \in MoneyStateChanges
          ELSE runs'[r].money_state = "NONE"]_vars

\* C25 as the code has it: a run is created with money_state NONE; a
\* refused reserve takes it from NONE to REFUNDED, an accepted one to
\* RESERVED; RESERVED is left once, for SETTLED, REFUNDED or AUDIT_REQUIRED,
\* and these three never change again.
MoneyStateChangesInCode ==
    MoneyStateChanges \cup {<<"NONE", "REFUNDED">>, <<"RESERVED", "AUDIT_REQUIRED">>}

MoneyStateLifecycleInCode ==
    [][\A r \in DOMAIN runs' :
          IF r \in DOMAIN runs
          THEN \/ runs'[r].money_state = runs[r].money_state
               \/ <<runs[r].money_state, runs'[r].money_state>> \in MoneyStateChangesInCode
          ELSE runs'[r].money_state = "NONE"]_vars

\* A run that went through RESERVED while it was picked up and is SETTLED.
MoneyStateLifecycleWitness ==
    /\ CoreReq \in DOMAIN runs
    /\ runs[CoreReq].money_state = "SETTLED"
    /\ runs[CoreReq].status = "COMPLETED"
    /\ reserveOk[CoreReq] >= 1
\* ------------------------------------------------- GET /v1/runs/{run_id}
\* A run id that no admission has ever issued.
MissingRun == "p0"
RunIds == Requests \cup {MissingRun}

\* The lookup without the tenant in its WHERE clause.
GetByIdAnyTenant(rs, id, t) == {r \in DOMAIN rs : r = id}

\* RunRepository.get_by_id: WHERE run_id = :run_id AND tenant_id = :tenant_id
\* (the rows found: none or one).
GetById(rs, id, t) == {r \in DOMAIN rs : r = id /\ rs[r].tenant = t}

\* get_run: poll rate limit of the caller's tenant, lookup, retention check,
\* status body (amounts are kept in micros).
GetRunReply(rs, bal, t, id, limited, expired) ==
    IF limited
    THEN [code |-> 429, detail |-> "Rate Limit Exceeded", body |-> NoBody]
    ELSE IF GetById(rs, id, t) = {}
    THEN [code |-> 404, detail |-> "Run not found", body |-> NoBody]
    ELSE IF expired
    THEN [code |-> 410, detail |-> "Run result has expired", body |-> NoBody]
    ELSE LET run == rs[id]
         IN  [code |-> 200, detail |-> Null,
              body |-> [status |-> run.status,
                        money_state |-> run.money_state,
                        reserved |-> run.reservation_max_cost,
                        used |-> IF run.actual_cost = NoCost THEN 0 ELSE run.actual_cost,
                        minimum_fee |-> run.minimum_fee,
                        budget_remaining |-> bal[t],
                        result |-> (run.status = "COMPLETED" /\ run.result_key # Null),
                        error |-> IF run.status = "FAILED" THEN run.reason ELSE Null]]

\* GET /v1/runs/{run_id} by tenant t; limited: the tenant's poll counter is
\* over its limit; expired: retention_until < now.
GetRun(t, id, limited, expired) ==
    /\ got' = [tenant |-> t, run |-> id]
                @@ GetRunReply(runs, balance, t, id, limited, expired)
    /\ UNCHANGED rateVars
    /\ UNCHANGED <<runs, ledgerVars, queue, artifact, api, wk, rp, rc, timeVars, ghostVars>>

\* One tenant's run from admission to its end, polled by every tenant.
NextGet ==
    \/ \E h \in LiveHashes : PostStart(CoreReq, "t1", "k1", h, PayloadCost(h))
    \/ NextAdmitSteps
    \/ \E r \in Requests : WkReceive(LiveWorker, r)
    \/ WkLoad(LiveWorker)
    \/ WkToProcessing(LiveWorker)
    \/ WkExecuteOk(LiveWorker)
    \/ WkExecuteFails(LiveWorker)
    \/ WkClaimRead(LiveWorker)
    \/ WkClaimCas(LiveWorker)
    \/ WkUploadOk(LiveWorker)
    \/ WkUploadFails(LiveWorker)
    \/ WkSettle(LiveWorker)
    \/ WkCommit(LiveWorker)
    \/ WkCrash(LiveWorker)
    \/ NextReaper
    \/ \E r \in Requests : LeaseExpires(r)
    \/ \E t \in Tenants, id \in RunIds, limited \in BOOLEAN, expired \in BOOLEAN :
          GetRun(t, id, limited, expired)

SpecGet == Init /\ [][NextGet]_vars

\* C26: the reply of GET /v1/runs/{run_id} to a tenant that does not own
\* the run, whatever the run's state, is a reply the same tenant gets for a
\* run id that does not exist.
NonOwnerSeesMissingRun ==
    (got.run \in DOMAIN runs /\ runs[got.run].tenant # got.tenant)
        => \E limited \in BOOLEAN, expired \in BOOLEAN :
               [code |-> got.code, detail |-> got.detail, body |-> got.body]
                   = GetRunReply(runs, balance, got.tenant, MissingRun, limited, expired)

\* Another tenant has polled a completed run.
NonOwnerSeesMissingRunWitness ==
    /\ got.run = CoreReq
    /\ got.tenant = "t2"
    /\ CoreReq \in DOMAIN runs
    /\ runs[CoreReq].status = "COMPLETED"
    /\ got.code = 404

\* C27: every step in which the Reaper's claim (finalize_timeout) succeeds
\* is taken on a run whose lease has expired at that moment.
ReaperClaimsOnlyExpired ==
    [][\A r \in DOMAIN runs :
          (Reaper \notin claimWins[r] /\ Reaper \in claimWins'[r]) => leaseExpired[r]]_vars

\* C28: once worker w has called heartbeat.stop() and gone on to its claim,
\* no heartbeat of w changes the run any more.
NoHeartbeatAfterStop ==
    [][\A w \in Workers :
          (wk[w].hb = "draining" /\ wk'[w].hb # "draining") => runs' = runs]_vars
\* ----------------------------------------- BudgetManager of src/apps/api
\* BudgetManager.settle(run_id, tenant_id, expected_version, actual_cost):
\* read the run (money_state must be RESERVED, cost within the reservation),
\* run Settle.lua, then update the run to SETTLED under expected_version and
\* return whether that update matched.
BmSettle(r, expected, cost) ==
    LET t == IF r \in DOMAIN runs THEN runs[r].tenant ELSE "t1"
        res == SettleLua(balance, reserve, receipt, t, r, cost)
        upd == UpdateWithVersionCheck(runs, r, t, expected,
                   [money_state |-> "SETTLED", actual_cost |-> cost], NoConds)
        raised == IF r \notin DOMAIN runs THEN "BudgetError"
                  ELSE IF runs[r].money_state # "RESERVED" THEN "InvalidMoneyStateError"
                  ELSE IF cost > runs[r].reservation_max_cost THEN "BudgetError"
                  ELSE IF res.status = "ERR_NO_RESERVE" THEN "NoReservationError"
                  ELSE Null
        reached == raised \in {Null, "NoReservationError"}
    IN  /\ balance' = IF reached THEN res.bal ELSE balance
        /\ reserve' = IF reached THEN res.res ELSE reserve
        /\ receipt' = IF reached THEN res.rcp ELSE receipt
        /\ settleIssued' = IF reached
                           THEN [settleIssued EXCEPT ![r] = @ \cup {res.status}]
                           ELSE settleIssued
        /\ settleOk' = IF raised = Null THEN [settleOk EXCEPT ![r] = @ + 1] ELSE settleOk
        /\ runs' = IF raised = Null THEN upd.rs ELSE runs
        /\ ret' = [op |-> "BudgetManager.settle", tenant |-> t, run |-> r, arg |-> cost,
                   status |-> IF raised # Null THEN raised
                              ELSE IF upd.ok THEN "True" ELSE "False",
                   charge |-> IF raised = Null THEN res.charge ELSE 0,
                   refund |-> IF raised = Null THEN res.refund ELSE 0]
        /\ UNCHANGED edgeVars
        /\ UNCHANGED <<queue, artifact, api, wk, rp, rc, timeVars,
                       commits, claimWins, claimErr, claimTried, reserveOk, refundOk>>

\* BudgetManager.reserve(run_id, tenant_id, expected_version, max_cost): the
\* run must be in money_state NONE; Reserve.lua; then the run is marked
\* RESERVED under expected_version, and if that update does not match the
\* reservation is given back with refund_full and False is returned.
BmReserve(r, expected, amount) ==
    /\ LedgerCalls < MaxLedgerCalls
    /\ LET t == IF r \in DOMAIN runs THEN runs[r].tenant ELSE "t1"
           res == ReserveLua(balance, reserve, t, r, amount)
           upd == UpdateWithVersionCheck(runs, r, t, expected,
                      [money_state |-> "RESERVED", reservation_max_cost |-> amount], NoConds)
           back == RefundFullLua(res.bal, res.res, t, r)
           raised == IF r \notin DOMAIN runs THEN "BudgetError"
                     ELSE IF runs[r].money_state # "NONE" THEN "InvalidMoneyStateError"
                     ELSE IF res.status = "ERR_INSUFFICIENT" THEN "InsufficientBudgetError"
                     ELSE IF res.status = "ERR_ALREADY_RESERVED" THEN "AlreadyReservedError"
                     ELSE Null
           lost == raised = Null /\ ~upd.ok
       IN  /\ balance' = IF raised # Null THEN balance ELSE IF lost THEN back.bal ELSE res.bal
           /\ reserve' = IF raised # Null THEN reserve ELSE IF lost THEN back.res ELSE res.res
           /\ runs' = IF raised = Null THEN upd.rs ELSE runs
           /\ reserveOk' = IF raised = Null THEN [reserveOk EXCEPT ![r] = @ + 1] ELSE reserveOk
           /\ refundOk' = IF lost /\ back.status = "OK"
                          THEN [refundOk EXCEPT ![r] = @ + 1] ELSE refundOk
           /\ ret' = [op |-> "BudgetManager.reserve", tenant |-> t, run |-> r, arg |-> amount,
                      status |-> IF raised # Null THEN raised
                                 ELSE IF upd.ok THEN "True" ELSE "False",
                      charge |-> 0, refund |-> 0]
    /\ UNCHANGED edgeVars
    /\ UNCHANGED <<receipt, queue, artifact, api, wk, rp, rc, timeVars,
                   settleIssued, settleOk, commits, claimWins, claimErr, claimTried>>

\* One admission and direct calls of BudgetManager on its run.
NextBudget ==
    \/ \E h \in Hashes : PostStart(CoreReq, "t1", "k1", h, PayloadCost(h))
    \/ NextAdmitSteps
    \/ \E r \in Requests, expected \in 0..MaxExpectedVersion, cost \in LedgerAmounts :
          BmSettle(r, expected, cost)
    \/ \E r \in Requests, expected \in 0..MaxExpectedVersion, amount \in LedgerAmounts :
          BmReserve(r, expected, amount)

SpecBudget == Init /\ [][NextBudget]_vars

\* C29: a BudgetManager.settle that returns False has changed nothing: the
\* run is still RESERVED without an actual_cost, reserve:{run} is still
\* there and the balance is what it was.
SettleFalseChangesNothing ==
    [][(ret' # ret /\ ret'.op = "BudgetManager.settle" /\ ret'.status = "False") =>
          /\ runs'[ret'.run].money_state = "RESERVED"
          /\ runs'[ret'.run].actual_cost = NoCost
          /\ ret'.run \in DOMAIN reserve'
          /\ balance' = balance]_vars

\* C30: when the Reconciler commits a run after settling it itself (the
\* claimant stopped before its settle) and the run's artifact is in the
\* object store, it commits COMPLETED with the actual cost the worker
\* recorded with the artifact.
CrashAfterUploadCompletes ==
    [][(/\ rc.pc = "commit"
        /\ runs' # runs
        /\ rc.run \in DOMAIN artifact)
          => /\ runs'[rc.run].status = "COMPLETED"
             /\ runs'[rc.run].actual_cost = artifact[rc.run]]_vars
\* ---------------------------------------------------- claims C31..C40
\* A step of a Reaper pass and a step of a Reconciler pass.
ReaperStep ==
    \/ \E r \in Requests : RpScan(r)
    \/ RpClaimRead
    \/ RpClaimCas
    \/ RpSettle
    \/ RpCommit

ReconcilerStep ==
    \/ \E r \in Requests : RcScan(r)
    \/ RcCheck
    \/ RcSettle
    \/ RcCommit
    \/ RcAudit
    \/ RcForce

\* One request, one worker process (restarted after every crash), and a
\* Reaper and a Reconciler that are never killed.
NextSteady ==
    \/ \E h \in LiveHashes : PostStart(CoreReq, "t1", "k1", h, PayloadCost(h))
    \/ NextAdmitSteps
    \/ \E r \in Requests : WkReceive(LiveWorker, r)
    \/ WkLoad(LiveWorker)
    \/ WkToProcessing(LiveWorker)
    \/ WkExecuteOk(LiveWorker)
    \/ WkExecuteFails(LiveWorker)
    \/ WkClaimRead(LiveWorker)
    \/ WkClaimCas(LiveWorker)
    \/ WkUploadOk(LiveWorker)
    \/ WkUploadFails(LiveWorker)
    \/ WkSettle(LiveWorker)
    \/ WkCommit(LiveWorker)
    \/ WkCrash(LiveWorker)
    \/ HbBegin(LiveWorker)
    \/ HbSend(LiveWorker)
    \/ ReaperStep
    \/ ReconcilerStep
    \/ NextTime

\* The Reaper loop and the Reconcile loop go on for ever, and the clock
\* reaches lease_expires_at and finalize_claimed_at + 5 min.  Nothing is
\* assumed of the worker or the API.
LoopsKeepRunning ==
    /\ WF_vars(\E r \in Requests : LeaseExpires(r))
    /\ WF_vars(\E r \in Requests : ClaimGetsStuck(r))
    /\ WF_vars(ReaperStep)
    /\ WF_vars(ReconcilerStep)

SpecSteady == Init /\ [][NextSteady]_vars /\ LoopsKeepRunning

CrashedAdmissionReleasesFunds ==
    \A p \in Requests :
        (/\ api[p].pc = "crashed"
         /\ p \in DOMAIN reserve
         /\ p \in DOMAIN runs
         /\ runs[p].status = "QUEUED")
            ~> (settleOk[p] + refundOk[p] >= 1)

\* C33: every step in which reserve:{run} ceases to exist is a successful
\* settle or refund_full of that run (which charges the amount or returns
\* it to the balance).
ReservationLeavesBySettleOrRefund ==
    [][\A r \in DOMAIN reserve :
          r \notin DOMAIN reserve' =>
              \/ settleOk'[r] = settleOk[r] + 1
              \/ refundOk'[r] = refundOk[r] + 1]_vars

\* C34: a worker that finds its message's run in PROCESSING does not delete
\* the message, and a worker whose claim ends in ClaimError deletes it only
\* if the run is COMMITTED or terminal.
MessageKeptUntilDone ==
    [][\A w \in Workers :
          LET r == wk[w].run
              Deleted == r \in queue /\ r \notin queue'
              FoundProcessing == /\ wk[w].pc = "load"
                                 /\ r \in DOMAIN runs
                                 /\ runs[r].status = "PROCESSING"
              ClaimFailed == /\ wk[w].pc \in {"claim_read", "claim_cas"}
                             /\ w \in claimErr'
                             /\ runs' = runs
          IN  /\ (FoundProcessing /\ wk'[w] # wk[w]) => ~Deleted
              /\ (ClaimFailed /\ wk'[w] # wk[w] /\ Deleted) =>
                     \/ runs[r].finalize_stage = "COMMITTED"
                     \/ runs[r].status \in TerminalStates]_vars

\* C35: a worker is past the QUEUED -> PROCESSING transition of a run only
\* as the holder of the run's lease_token, so at most one of the workers
\* that received the job executes it, and a lease_token once written is
\* never overwritten.
Executing(x) == x.pc \in {"exec", "claim_read", "claim_cas", "upload", "settle", "commit"}

OneWorkerProcesses ==
    [][/\ \A w \in Workers :
             Executing(wk'[w]) => runs'[wk'[w].run].lease_token = w
       /\ \A r \in DOMAIN runs :
             runs[r].lease_token # Null => runs'[r].lease_token = runs[r].lease_token]_vars

\* Both workers received the job: w1 executes the run and w2, who lost the
\* transition, has deleted the message.
OneWorkerProcessesWitness ==
    /\ wk["w1"].pc = "exec"
    /\ wk["w1"].run = CoreReq
    /\ runs[CoreReq].lease_token = "w1"
    /\ wk["w2"].pc = "idle"
    /\ CoreReq \notin queue

\* C36: when Reserve.lua has succeeded and the update of the run to
\* money_state = RESERVED loses the version check (the one step that both
\* reserves and refunds), the reservation is given back: the call returns
\* False with no reserve:{run}, every balance at the value it had before the
\* call and the run untouched.
LostMarkIsCompensated ==
    [][\A r \in Requests :
         (/\ reserveOk'[r] = reserveOk[r] + 1
          /\ refundOk'[r] = refundOk[r] + 1)
            => /\ ret'.op = "BudgetManager.reserve"
               /\ ret'.run = r
               /\ ret'.status = "False"
               /\ r \notin DOMAIN reserve'
               /\ balance' = balance
               /\ runs' = runs]_vars

\* A reserve that went through the ledger and was given back.
LostMarkIsCompensatedWitness ==
    /\ ret.op = "BudgetManager.reserve"
    /\ ret.status = "False"
    /\ ret.run \in DOMAIN runs
    /\ runs[ret.run].money_state = "NONE"
    /\ reserveOk[ret.run] >= 1
    /\ refundOk[ret.run] >= 1

\* ------------------------------------------- a charge above the reservation
\* One admission by src/apps/api (fee without the reservation in the clamp)
\* with a max_cost drawn from MaxCosts, the worker of src/apps/worker and the
\* Reaper: the run's minimum_fee can exceed its reservation_max_cost.
NextOvercharge ==
    \/ \E c \in MaxCosts : FeePost(CoreReq, c)
    \/ \E p \in Requests : PostLookup(p)
    \/ \E p \in Requests : LegacyPostCreate(p)
    \/ \E p \in Requests : PostReserve(p)
    \/ \E p \in Requests : PostReserveFailed(p)
    \/ \E p \in Requests : PostMarkReserved(p)
    \/ \E p \in Requests : PostEnqueue(p)
    \/ \E p \in Requests : PostEnqueueFails(p)
    \/ \E p \in Requests : PostEnqueueFailed(p)
    \/ \E p \in Requests : PostCrash(p)
    \/ NextLegacyWorker
    \/ NextReaper
    \/ \E r \in Requests : LeaseExpires(r)

SpecOvercharge == Init /\ [][NextOvercharge]_vars

\* A worker about to run _do_2phase_finalize with a charge above the run's
\* reservation_max_cost, on a PROCESSING run in money_state RESERVED.
Overcharging(w) ==
    /\ wk[w].pc = "claim_read"
    /\ wk[w].run \in DOMAIN runs
    /\ runs[wk[w].run].status = "PROCESSING"
    /\ runs[wk[w].run].money_state = "RESERVED"
    /\ WkCharge(w) > runs[wk[w].run].reservation_max_cost

\* C37: a finalize whose charge exceeds the run's reservation_max_cost ends
\* in FinalizeError (not ClaimError) before any claim: the step leaves the
\* run row, the reservations and the balances as they were, the worker has
\* not won a claim and does not go on to the claim (the same holds if the
\* worker dies instead).
OverchargeFailsBeforeClaim ==
    [][\A w \in Workers :
         (Overcharging(w) /\ wk'[w] # wk[w])
            => /\ runs' = runs
               /\ reserve' = reserve
               /\ balance' = balance
               /\ claimWins' = claimWins
               /\ w \notin claimErr' \ claimErr
               /\ wk'[w].pc \notin {"claim_cas", "settle", "commit"}]_vars

\* A worker's finalize has failed on the charge: the run is still PROCESSING
\* and unclaimed with its reservation in place.
OverchargeFailsBeforeClaimWitness ==
    /\ CoreReq \in DOMAIN runs
    /\ runs[CoreReq].status = "PROCESSING"
    /\ runs[CoreReq].finalize_stage = Null
    /\ runs[CoreReq].minimum_fee > runs[CoreReq].reservation_max_cost
    /\ claimTried \cap Workers # {}
    /\ claimErr = {}
    /\ claimWins[CoreReq] = {}
    /\ CoreReq \in DOMAIN reserve
    /\ reserve[CoreReq].reserved = runs[CoreReq].reservation_max_cost

\* C38: a run's version never decreases, and every step that changes a run
\* row increments its version.
VersionCountsEveryMutation ==
    [][\A r \in DOMAIN runs :
         /\ r \in DOMAIN runs'
         /\ runs'[r].version >= runs[r].version
         /\ runs'[r] # runs[r] => runs'[r].version = runs[r].version + 1]_vars

\* C39: a tenant's rate counter is never negative and never exists without
\* a TTL (but for the caller that created it and is about to set the TTL),
\* and no window admits more than the limit.
RateCounterSound ==
    /\ rateKey.exists => rateKey.value >= 0
    /\ rateKey.exists =>
          \/ rateKey.ttl
          \/ \E q \in RateCallers : rl[q].pc = "expire"
    /\ passes <= RateLimit

\* ------------------------------------------- script calls under any tenant
\* BudgetScripts.settle(tenant_id, run_id, charge_usd_micros) from a caller
\* that passes any tenant_id: KEYS[1] is budget:{tenant_id} of the caller,
\* KEYS[2] is reserve:{run_id}.
SettleAs(t, r, kind) ==
    /\ LedgerCalls < MaxLedgerCalls
    /\ LET requested == LedgerCharge(kind, IF r \in DOMAIN reserve
                                           THEN reserve[r].reserved ELSE StubCost)
           res == SettleLua(balance, reserve, receipt, t, r, requested)
       IN  /\ balance' = res.bal
           /\ reserve' = res.res
           /\ receipt' = res.rcp
           /\ settleIssued' = [settleIssued EXCEPT ![r] = @ \cup {res.status}]
           /\ settleOk' = [settleOk EXCEPT ![r] = @ + (IF res.status = "OK" THEN 1 ELSE 0)]
           /\ ret' = [op |-> "settle", tenant |-> t, run |-> r, arg |-> requested,
                      status |-> res.status, charge |-> res.charge, refund |-> res.refund]
    /\ UNCHANGED edgeVars
    /\ UNCHANGED <<runs, queue, artifact, api, wk, rp, rc, timeVars,
                   commits, claimWins, claimErr, claimTried, reserveOk, refundOk>>

\* BudgetScripts.refund_full(tenant_id, run_id) from a caller that passes any
\* tenant_id.
RefundFullAs(t, r) ==
    /\ LedgerCalls < MaxLedgerCalls
    /\ LET res == RefundFullLua(balance, reserve, t, r)
       IN  /\ balance' = res.bal
           /\ reserve' = res.res
           /\ refundOk' = [refundOk EXCEPT ![r] = @ + (IF res.status = "OK" THEN 1 ELSE 0)]
           /\ ret' = [op |-> "refund_full", tenant |-> t, run |-> r, arg |-> 0,
                      status |-> res.status, charge |-> 0,
                      refund |-> IF res.status = "OK" THEN reserve[r].reserved ELSE 0]
    /\ UNCHANGED edgeVars
    /\ UNCHANGED <<runs, receipt, queue, artifact, api, wk, rp, rc, timeVars,
                   settleIssued, settleOk, commits, claimWins, claimErr, claimTried, reserveOk>>

NextScripts ==
    \/ \E t \in Tenants, r \in Requests, a \in LedgerAmounts : LedgerReserve(t, r, a)
    \/ \E t \in Tenants, r \in Requests, k \in ChargeKinds : SettleAs(t, r, k)
    \/ \E t \in Tenants, r \in Requests : RefundFullAs(t, r)

SpecScripts == Init /\ [][NextScripts]_vars

\* C40: a settle or refund_full on an existing reservation changes no
\* balance but that of the tenant recorded in reserve:{run}, and when the
\* call names another tenant it changes no balance and leaves the
\* reservation in place.
RefundGoesToReservingTenant ==
    [][(/\ ret'.op \in {"settle", "refund_full"}
        /\ ret'.run \in DOMAIN reserve) =>
          IF ret'.tenant = reserve[ret'.run].tenant
          THEN \A t \in Tenants \ {ret'.tenant} : balance'[t] = balance[t]
          ELSE balance' = balance /\ reserve' = reserve]_vars
====
